---------------------------- MODULE Spec2Model ----------------------------
(***************************************************************************)
(* A model of the personal finance tracker: the hosted store with its      *)
(* row-level policies and foreign key (supabase/migrations/...sql), the    *)
(* Bills page (pages/Bills.tsx and the copy inside InvestmentGoals.tsx),   *)
(* the Transactions page (pages/Transactions.tsx and its text-date copy)   *)
(* and the net-worth aggregation (App.tsx, pages/Dashboard.tsx).           *)
(*                                                                         *)
(* Data abstraction.  A calendar date "YYYY-MM-DD" is a day number, an     *)
(* instant is a number of hours since day 0, 00:00 UTC, and a client's     *)
(* timezone is its offset from UTC in hours (east positive).  Money is a   *)
(* whole number of currency units.  Of a record only the fields that the   *)
(* modelled code reads or that decide a property are kept; the free-text   *)
(* fields (name, category, description) are left out.                      *)
(***************************************************************************)
EXTENDS Integers, Sequences, FiniteSets, TLC

VARIABLES
    goalsTable,         \* store: table goals, id -> row or NoRow
    transactionsTable,  \* store: table transactions
    billsTable,         \* store: table bills
    investmentsTable,   \* store: table investments
    returned,       \* store: the owners of the rows the last request returned
    cleared,        \* history: investments whose goal_id the last request's
                    \*   ON DELETE SET NULL cleared
    bills,          \* Bills page: useState<Bill[]>, the displayed list
    loading,        \* Bills page: useState(true)
    now,            \* the client's clock, an instant in hours
    tz,             \* the client's timezone offset in hours
    loadedToday,    \* history: bills was set by a loadBills run on the current local date
    stats,          \* Dashboard: useState<DashboardStats>
    dashLoading,    \* Dashboard: useState(true), its loading flag
    netWorth,       \* App: useState(0), shown in the sidebar
    nwLoaded,       \* history: a loadNetWorth run has reached setNetWorth
    transactions,   \* Transactions page: useState<Transaction[]>
    txLoading,      \* Transactions page: useState(true), its loading flag
    showModal,      \* Transactions page: useState(false)
    editingTransaction, \* Transactions page: the row being edited, or NoRow
    formData,       \* Transactions page: the form's fields
    txPage,         \* which copy of the Transactions page the client runs
    anLoading,          \* Visual Analysis: useState(true), its loading flag
    incomeByCategory,   \* Visual Analysis: useState<CategoryData[]>
    expenseByCategory,  \* Visual Analysis: useState<CategoryData[]>
    monthlyData,        \* Visual Analysis: the monthly rows
    rateShown,          \* Dashboard: the rendered Savings Rate, or NoRow
    goals,              \* Goals page: useState<Goal[]>
    goalsLoading,       \* Goals page: useState(true), its loading flag
    fetched,            \* Export page: the store's responses to the export's selects
    expLoading,         \* Export page: useState(false), its loading flag
    exportSuccess,      \* Export page: useState(false)
    download,           \* Export page: the file last downloaded (its type, the
                        \*   table or "all_data" in its name, its text), or NoRow
    csvFields,          \* history: the fields exportToCSV emitted, row by row
    currentPage,        \* App: useState("dashboard"), the page that is mounted
    calls,              \* the mounted page's store calls that are in flight
    received,           \* history: the handler, statement and outcome of the call
                        \*   whose response was handled last, or NoRow
    billsShowModal,     \* Bills page: showModal
    editingBill,        \* Bills page: the bill being edited, or NoRow
    billsFormData,      \* Bills page: formData
    goalsShowModal,     \* Goals page: showModal
    editingGoal,        \* Goals page: the goal being edited, or NoRow
    goalsFormData,      \* Goals page: formData
    exporting,          \* Export page: the export started last (its number, its
                        \*   handler, its table, how far it has come)
    nwCalls,            \* App: the loadNetWorth calls that are in flight
    nwStarted           \* history: the number of loadNetWorth calls started and
                        \*   the value the store computed for the last of them

varsTables == <<goalsTable, transactionsTable, billsTable, investmentsTable>>
varsStore == <<goalsTable, transactionsTable, billsTable, investmentsTable,
               returned, cleared>>
varsBillsPage == <<bills, loading, now, tz, loadedToday>>
varsDashboard == <<stats, dashLoading, netWorth, nwLoaded>>
varsTxPage == <<transactions, txLoading, showModal, editingTransaction, formData, txPage>>
varsAnalysis == <<anLoading, incomeByCategory, expenseByCategory, monthlyData>>
varsGoalsPage == <<goals, goalsLoading>>
varsExport == <<fetched, expLoading, exportSuccess, download, csvFields>>
varsForms == <<billsShowModal, editingBill, billsFormData,
               goalsShowModal, editingGoal, goalsFormData>>
varsFlight == <<exporting, nwCalls, nwStarted>>
varsAsync == <<currentPage, calls, received, varsForms, varsFlight>>
varsOtherPages == <<varsAnalysis, rateShown, varsGoalsPage, varsExport, varsAsync>>
varsPages == <<varsBillsPage, varsDashboard, varsTxPage, varsOtherPages>>

vars == <<varsStore, varsPages>>

\* what the Bills page and its requests leave alone
notBills == <<goalsTable, transactionsTable, investmentsTable, returned, cleared,
              varsDashboard, varsTxPage, varsOtherPages>>

----------------------------------------------------------------------------
(* Bounds *)

MaxBills == 1       \* ids of the bills table
MaxDay == 2         \* due dates are the days 1..MaxDay
MaxRows == 1            \* ids of the transactions and bills tables in SpecStore
MaxTransactions == 2    \* ids of the transactions table
MaxAmount == 1          \* amounts range over -MaxAmount..MaxAmount
MaxGoals == 2           \* ids of the goals table
MaxInvestments == 2     \* ids of the investments table

Users == {"u1", "u2"}
Me == "u1"                          \* useAuth().user.id of the modelled client
Statuses == {"paid", "pending", "overdue"}
BillIds == 1..MaxBills
TransactionIds == 1..MaxTransactions
Types == {"income", "expense"}
Amounts == (0 - MaxAmount)..MaxAmount
GoalIds == 1..MaxGoals
InvestmentIds == 1..MaxInvestments
Null == 0                           \* a null goal_id
Days == 1..MaxDay
TZOffsets == {-12, 0, 14}           \* UTC-12 .. UTC+14, the extremes and UTC
NoRow == [absent |-> TRUE]

----------------------------------------------------------------------------
(* The store: the four tables, their row-level policies and the foreign key *)

Tables == {"goals", "transactions", "bills", "investments"}

\* goals: the four policies, each USING / WITH CHECK (auth.uid() = user_id)
GoalsPolicy(uid, row) == uid = row.user_id

\* transactions: the four policies
TransactionsPolicy(uid, row) == uid = row.user_id

\* bills: the four policies
BillsPolicy(uid, row) == uid = row.user_id

\* investments: the four policies
InvestmentsPolicy(uid, row) == uid = row.user_id

\* the policy expression of table t, evaluated for auth.uid() = uid on row
RowPolicy(t, uid, row) ==
    CASE t = "goals" -> GoalsPolicy(uid, row)
      [] t = "transactions" -> TransactionsPolicy(uid, row)
      [] t = "bills" -> BillsPolicy(uid, row)
      [] t = "investments" -> InvestmentsPolicy(uid, row)

\* select('*') on tbl as uid: the ids of the rows the SELECT policy lets through
StoreSelect(t, tbl, uid) ==
    {i \in DOMAIN tbl : tbl[i] # NoRow /\ RowPolicy(t, uid, tbl[i])}

\* update(...).eq('id', i) as uid: is the row visible to the UPDATE policy (a
\* hidden or missing row is skipped without an error)
StoreTouches(t, tbl, uid, i) == tbl[i] # NoRow /\ RowPolicy(t, uid, tbl[i])

\* update(...).eq('id', i) as uid, writing the row new: USING selects the row,
\* WITH CHECK must accept the new row or the statement fails
StoreUpdate(t, tbl, uid, i, new) ==
    IF StoreTouches(t, tbl, uid, i) /\ RowPolicy(t, uid, new)
    THEN [tbl EXCEPT ![i] = new]
    ELSE tbl

\* delete().eq('id', i) as uid
StoreDelete(t, tbl, uid, i) ==
    IF StoreTouches(t, tbl, uid, i) THEN [tbl EXCEPT ![i] = NoRow] ELSE tbl

\* goal_id uuid REFERENCES goals(id): the reference check of a written
\* investment.  Referential checks run with row security bypassed, so the
\* referenced goal only has to exist
FkHolds(gtbl, row) ==
    IF row.goal_id = Null THEN TRUE ELSE gtbl[row.goal_id] # NoRow

\* variant for the sensitivity of C8: ON DELETE CASCADE instead
FkCascade(itbl, g) ==
    [i \in DOMAIN itbl |->
        IF itbl[i] # NoRow /\ itbl[i].goal_id = g THEN NoRow ELSE itbl[i]]

\* ON DELETE SET NULL: the referential action on the investments that
\* reference the deleted goal g.  It also runs with row security bypassed
FkSetNull(itbl, g) ==
    [i \in DOMAIN itbl |->
        IF itbl[i] # NoRow /\ itbl[i].goal_id = g
        THEN [itbl[i] EXCEPT !.goal_id = Null]
        ELSE itbl[i]]

\* the investments whose goal_id references goal g
Referencing(itbl, g) == {i \in DOMAIN itbl : itbl[i] # NoRow /\ itbl[i].goal_id = g}

----------------------------------------------------------------------------
(* Bills page: the status derivation of loadBills *)

\* variant for the sensitivity of C2: the due date read as the end of its day
ParseDateEndOfDay(d) == d * 24 + 24

\* new Date("YYYY-MM-DD"): a date-only string is read as 00:00 UTC of that day
ParseDate(d) == d * 24

\* the calendar date of instant t on a client at offset z
LocalDay(t, z) == (t + z) \div 24

\* variant for the sensitivity of C5: new Date() without setHours
TodayInstant(t, z) == t

\* new Date(); setHours(0, 0, 0, 0): the instant of the client's local midnight
TodayMidnight(t, z) == LocalDay(t, z) * 24 - z

\* variant for the sensitivity of C1: the callback without its test of 'paid'
billsWithStatusAnyStatus(bill, t, z) ==
    IF ParseDate(bill.due_date) < TodayMidnight(t, z)
    THEN [bill EXCEPT !.status = "overdue"]
    ELSE bill

\* the callback of data.map in loadBills
billsWithStatus(bill, t, z) ==
    IF bill.status # "paid" /\ ParseDate(bill.due_date) < TodayMidnight(t, z)
    THEN [bill EXCEPT !.status = "overdue"]
    ELSE bill

\* a fetched row: the stored row with its id
Fetched(tbl, i) ==
    [id |-> i, user_id |-> tbl[i].user_id, due_date |-> tbl[i].due_date,
     status |-> tbl[i].status]

\* .order('due_date', { ascending: true }): the sequences that list the ids S
\* of tbl once each, ascending in due_date
OrderedByDueDate(tbl, S) ==
    {s \in [1..Cardinality(S) -> S] :
        /\ \A a, b \in 1..Cardinality(S) : a # b => s[a] # s[b]
        /\ \A a, b \in 1..Cardinality(S) :
                a < b => tbl[s[a]].due_date <= tbl[s[b]].due_date}

BillRows == [user_id : Users, due_date : Days, status : Statuses]

\* the mutated rows a client holds for a fetched list
StatusOf(list) == {<<list[k].id, list[k].status>> : k \in 1..Len(list)}

----------------------------------------------------------------------------
(* The pages as constructed, before any effect has run *)

IdleBillsPage ==
    /\ bills = <<>>
    /\ loading = TRUE
    /\ now = 24
    /\ tz = 0
    /\ loadedToday = FALSE

IdleDashboard ==
    /\ stats = [netWorth |-> 0, totalIncome |-> 0, totalExpenses |-> 0,
                activeGoals |-> 0, pendingBills |-> 0, investmentValue |-> 0]
    /\ dashLoading = TRUE
    /\ netWorth = 0
    /\ nwLoaded = FALSE

\* the text of a number input: empty, or the decimal form of a number
EmptyText == <<>>
TextOf(n) == <<n>>

\* resetForm of the Transactions page
ResetTxForm == [type |-> "expense", amount |-> EmptyText]

IdleTxPage ==
    /\ transactions = <<>>
    /\ txLoading = TRUE
    /\ showModal = FALSE
    /\ editingTransaction = NoRow
    /\ formData = ResetTxForm
    /\ txPage = "Transactions.tsx"

\* Visual Analysis as constructed
IdleAnalysis ==
    /\ anLoading = TRUE
    /\ incomeByCategory = <<>>
    /\ expenseByCategory = <<>>
    /\ monthlyData = <<>>

\* Goals page as constructed
IdleGoalsPage ==
    /\ goals = <<>>
    /\ goalsLoading = TRUE

\* Export page as constructed, no request answered
IdleExport ==
    /\ fetched = [t \in Tables |-> [error |-> FALSE, data |-> <<>>]]
    /\ expLoading = FALSE
    /\ exportSuccess = FALSE
    /\ download = NoRow
    /\ csvFields = <<>>

\* the date input left empty: due_date: ''
EmptyDate == 0

\* resetForm of the Bills page
ResetBillsForm == [due_date |-> EmptyDate, status |-> "pending"]

\* resetForm of the Goals page
ResetGoalsForm == [target_amount |-> EmptyText, current_amount |-> EmptyText]

\* the forms of the Bills and Goals pages as constructed
IdleForms ==
    /\ billsShowModal = FALSE
    /\ editingBill = NoRow
    /\ billsFormData = ResetBillsForm
    /\ goalsShowModal = FALSE
    /\ editingGoal = NoRow
    /\ goalsFormData = ResetGoalsForm

\* no export started
NoExport == [n |-> 0, handler |-> "none", table |-> "none", stage |-> "done"]

\* no export and no loadNetWorth call started
IdleFlight ==
    /\ exporting = NoExport
    /\ nwCalls = <<>>
    /\ nwStarted = [n |-> 0, value |-> 0]

\* the application as constructed, no store call made
IdleAsync ==
    /\ currentPage = "dashboard"
    /\ calls = <<>>
    /\ received = NoRow
    /\ IdleForms
    /\ IdleFlight

\* the pages the other sessions do not open
IdleOtherPages ==
    /\ IdleAnalysis
    /\ rateShown = NoRow
    /\ IdleGoalsPage
    /\ IdleExport
    /\ IdleAsync

----------------------------------------------------------------------------
(* Bills page: handlers.  Each handler is one step: the store request and   *)
(* the loadBills() it ends with.  In SpecBills the store answers every     *)
(* request (ok = TRUE); the catch branches are exercised where the error   *)
(* handling is specified.                                                  *)

\* rows of tbl that .select('*').eq('user_id', user.id) returns to uid
BillsQuery(tbl, uid) == {i \in StoreSelect("bills", tbl, uid) : tbl[i].user_id = uid}

\* loadBills against the table tbl.  ok: the rows arrive ordered by due_date
\* (ties in any order) and are mapped; ~ok: throw, catch, only finally runs
loadBills(tbl, ok) ==
    /\ loading' = FALSE
    /\ IF ok
       THEN /\ \E order \in OrderedByDueDate(tbl, BillsQuery(tbl, Me)) :
                 bills' = [k \in 1..Len(order) |->
                             billsWithStatus(Fetched(tbl, order[k]), now, tz)]
            /\ loadedToday' = TRUE
       ELSE UNCHANGED <<bills, loadedToday>>

\* useEffect on mount, or a re-mount of the page
LoadBills ==
    /\ loadBills(billsTable, TRUE)
    /\ UNCHANGED <<billsTable, now, tz>>
    /\ UNCHANGED notBills

\* the bills the page shows (nothing while the spinner is up)
Displayed == IF loading THEN {} ELSE {bills[k] : k \in 1..Len(bills)}

\* the row an update of row id i writes: the stored row with the patch applied
Patched(tbl, i, due, st) ==
    IF tbl[i] = NoRow THEN NoRow
    ELSE [tbl[i] EXCEPT !.due_date = due, !.status = st]

\* handleSubmit with editingBill set: update by id, then loadBills
BillsHandleSubmitEdit ==
    \E edited \in Displayed, due \in Days, st \in Statuses :
        /\ billsTable' = StoreUpdate("bills", billsTable, Me, edited.id,
                            Patched(billsTable, edited.id, due, st))
        /\ loadBills(billsTable', TRUE)
        /\ UNCHANGED <<now, tz>>
        /\ UNCHANGED notBills

\* handleSubmit with edited null: insert with user_id = user.id
BillsHandleSubmitAdd ==
    \E i \in BillIds, due \in Days, st \in Statuses :
        /\ ~loading
        /\ billsTable[i] = NoRow                \* gen_random_uuid(): a fresh id
        /\ BillsPolicy(Me, [user_id |-> Me, due_date |-> due, status |-> st])
        /\ billsTable' = [billsTable EXCEPT ![i] =
                            [user_id |-> Me, due_date |-> due, status |-> st]]
        /\ loadBills(billsTable', TRUE)
        /\ UNCHANGED <<now, tz>>
        /\ UNCHANGED notBills

\* deleteBill(id), confirmed
deleteBill ==
    \E b \in Displayed :
        /\ billsTable' = StoreDelete("bills", billsTable, Me, b.id)
        /\ loadBills(billsTable', TRUE)
        /\ UNCHANGED <<now, tz>>
        /\ UNCHANGED notBills

\* markAsPaid(bill); the button is rendered for bill.status !== 'paid'
markAsPaid ==
    \E b \in Displayed :
        /\ b.status # "paid"
        /\ billsTable' = StoreUpdate("bills", billsTable, Me, b.id,
                            Patched(billsTable, b.id, billsTable[b.id].due_date, "paid"))
        /\ loadBills(billsTable', TRUE)
        /\ UNCHANGED <<now, tz>>
        /\ UNCHANGED notBills

\* time passes, half a day at a time
Tick ==
    /\ now + 12 <= (MaxDay + 1) * 24
    /\ now' = now + 12
    /\ loadedToday' = (loadedToday /\ LocalDay(now', tz) = LocalDay(now, tz))
    /\ UNCHANGED <<billsTable, bills, loading, tz>>
    /\ UNCHANGED notBills

\* the page before its first load, against any store content, on any client
InitBills ==
    /\ billsTable \in [BillIds -> BillRows \cup {NoRow}]
    /\ bills = <<>>
    /\ loading = TRUE
    /\ now = 24
    /\ tz \in TZOffsets
    /\ loadedToday = FALSE
    /\ goalsTable = [i \in GoalIds |-> NoRow]
    /\ transactionsTable = [i \in TransactionIds |-> NoRow]
    /\ investmentsTable = [i \in InvestmentIds |-> NoRow]
    /\ returned = {}
    /\ cleared = {}
    /\ IdleDashboard
    /\ IdleTxPage
    /\ IdleOtherPages

NextBills ==
    \/ LoadBills
    \/ BillsHandleSubmitEdit
    \/ BillsHandleSubmitAdd
    \/ deleteBill
    \/ markAsPaid
    \/ Tick

SpecBills == InitBills /\ [][NextBills]_vars

----------------------------------------------------------------------------
(* Claims about the Bills page *)

Today == LocalDay(now, tz)
Stored(b) == billsTable[b.id]
Shown == {bills[k] : k \in 1..Len(bills)}

\* C1: every bill stored as paid is displayed as paid after loadBills, whatever
\* its due date and the current date
C1_PaidNeverDowngraded ==
    ~loading => \A b \in Shown :
        (Stored(b) # NoRow /\ Stored(b).status = "paid") => b.status = "paid"

\* C1 witness: a paid bill whose due date is past is on display
C1_Witness ==
    /\ ~loading
    /\ \E b \in Shown : Stored(b).status = "paid" /\ b.due_date < Today
                         /\ b.status = "paid"

\* C2: a bill not stored as paid whose due date is strictly before the current
\* local date is displayed as overdue
C2_PastDueIsOverdue ==
    loadedToday => \A b \in Shown :
        (Stored(b).status # "paid" /\ Stored(b).due_date < Today)
            => b.status = "overdue"

\* C2 witness: a bill stored as pending and due yesterday is displayed as overdue
C2_Witness ==
    /\ loadedToday
    /\ \E b \in Shown : Stored(b).status = "pending" /\ Stored(b).due_date < Today
                         /\ b.status = "overdue"

\* C3 (as claimed): a bill not stored as paid whose due date is not before the
\* current date is displayed as pending.  Stated for due dates after today, so
\* that the comparison of the dates itself (C4) plays no part
C3_NotDueIsPending ==
    loadedToday => \A b \in Shown :
        (Stored(b).status # "paid" /\ Stored(b).due_date > Today)
            => b.status = "pending"

\* C4 (as claimed): a bill not stored as paid and due on the client's current
\* local date is not displayed as overdue, at every timezone offset.  Stated for
\* bills stored as pending; a bill stored as overdue is the case of C3
C4_DueTodayNotOverdue ==
    loadedToday => \A b \in Shown :
        (Stored(b).status = "pending" /\ Stored(b).due_date = Today)
            => b.status # "overdue"

\* C5: loadBills issues no write to the store, and a loadBills run on the same
\* stored bills and the same local date as the run before displays the same
\* status for every bill
C5_LoadBillsPure ==
    [][LoadBills =>
          /\ billsTable' = billsTable
          /\ loadedToday => StatusOf(bills') = StatusOf(bills)]_vars

\* C5 witness: a derived status is on display while the store keeps its own
C5_Witness ==
    /\ loadedToday
    /\ now > 24
    /\ \E b \in Shown : b.status = "overdue" /\ Stored(b).status = "pending"
                         /\ b.due_date < Today

\* a fetched row: the stored row with its id
WithId(i, row) == [id |-> i] @@ row

\* the array a select('*').eq('user_id', uid) of uid returns: the rows the
\* policy shows that match the filter, here in the order of their ids
RECURSIVE FetchUpTo(_, _, _, _)
FetchUpTo(t, tbl, uid, n) ==
    IF n = 0 THEN <<>>
    ELSE IF n \in StoreSelect(t, tbl, uid) /\ tbl[n].user_id = uid
         THEN Append(FetchUpTo(t, tbl, uid, n - 1), WithId(n, tbl[n]))
         ELSE FetchUpTo(t, tbl, uid, n - 1)

\* the injective maps of 1..n onto itself
IndexPermutations(n) ==
    {p \in [1..n -> 1..n] : \A a, b \in 1..n : a # b => p[a] # p[b]}

----------------------------------------------------------------------------
(* The store under the requests of authenticated users.  A request is one   *)
(* PostgREST call made with a user's token: the pages' calls, and any other *)
(* call the same token allows.                                              *)

Tbl(t) ==
    CASE t = "goals" -> goalsTable
      [] t = "transactions" -> transactionsTable
      [] t = "bills" -> billsTable
      [] t = "investments" -> investmentsTable

TblNext(t) ==
    CASE t = "goals" -> goalsTable'
      [] t = "transactions" -> transactionsTable'
      [] t = "bills" -> billsTable'
      [] t = "investments" -> investmentsTable'

Ids(t) ==
    CASE t = "goals" -> GoalIds
      [] t = "transactions" -> 1..MaxRows
      [] t = "bills" -> 1..MaxRows
      [] t = "investments" -> InvestmentIds

\* the rows a request may carry
StoreRows(t) ==
    CASE t = "goals" -> [user_id : Users]
      [] t = "transactions" -> [user_id : Users, type : {"expense"}, amount : {0, 1}]
      [] t = "bills" -> [user_id : Users, due_date : {1}, status : {"pending", "paid"}]
      [] t = "investments" ->
            [user_id : Users, current_value : {1}, goal_id : {Null} \cup GoalIds]

\* table t becomes new, the other tables stay; investments may change with goals
WriteTbl(t, new) ==
    /\ goalsTable' = IF t = "goals" THEN new ELSE goalsTable
    /\ transactionsTable' = IF t = "transactions" THEN new ELSE transactionsTable
    /\ billsTable' = IF t = "bills" THEN new ELSE billsTable
    /\ t = "investments" => investmentsTable' = new

\* from(t).select('*') as u
ReqSelect(u, t) ==
    /\ returned' = {Tbl(t)[i].user_id : i \in StoreSelect(t, Tbl(t), u)}
    /\ cleared' = {}
    /\ UNCHANGED varsTables
    /\ UNCHANGED varsPages

\* from(t).insert(row) as u, the row getting the fresh id i
ReqInsert(u, t, i, row) ==
    /\ Tbl(t)[i] = NoRow
    /\ RowPolicy(t, u, row)
    /\ t = "investments" => FkHolds(goalsTable, row)
    /\ WriteTbl(t, [Tbl(t) EXCEPT ![i] = row])
    /\ t # "investments" => UNCHANGED investmentsTable
    /\ returned' = {}
    /\ cleared' = {}
    /\ UNCHANGED varsPages

\* from(t).update(new).eq('id', i) as u
ReqUpdate(u, t, i, new) ==
    /\ t = "investments" => FkHolds(goalsTable, new)
    /\ WriteTbl(t, StoreUpdate(t, Tbl(t), u, i, new))
    /\ t # "investments" => UNCHANGED investmentsTable
    /\ returned' = {}
    /\ cleared' = {}
    /\ UNCHANGED varsPages

\* from(t).delete().eq('id', i) as u; a deleted goal triggers ON DELETE SET NULL
ReqDeleteStore(u, t, i) ==
    /\ WriteTbl(t, StoreDelete(t, Tbl(t), u, i))
    /\ IF t = "goals" /\ StoreTouches(t, Tbl(t), u, i)
       THEN /\ investmentsTable' = FkSetNull(investmentsTable, i)
            /\ cleared' = Referencing(investmentsTable, i)
       ELSE /\ t # "investments" => UNCHANGED investmentsTable
            /\ cleared' = {}
    /\ returned' = {}

\* the delete request alone, no page involved
ReqDelete(u, t, i) ==
    /\ ReqDeleteStore(u, t, i)
    /\ UNCHANGED varsPages

\* what the Goals page leaves alone
notGoalsPage == <<varsBillsPage, varsDashboard, varsTxPage, varsAnalysis, rateShown,
                  varsExport, varsAsync>>

\* loadGoals against the table tbl: the user's goals, newest first.  created_at
\* is not part of the modelled row, so the rows arrive in any order
loadGoals(tbl, ok) ==
    /\ goalsLoading' = FALSE
    /\ IF ok
       THEN LET data == FetchUpTo("goals", tbl, Me, Len(tbl))
            IN  \E p \in IndexPermutations(Len(data)) :
                    goals' = [k \in 1..Len(data) |-> data[p[k]]]
       ELSE UNCHANGED goals

\* deleteGoal(id) of the goals page, confirmed: the delete request of the
\* signed-in user, then loadGoals()
deleteGoal(id) ==
    /\ ReqDeleteStore(Me, "goals", id)
    /\ loadGoals(goalsTable', TRUE)
    /\ UNCHANGED notGoalsPage

StoreWrite(u, t) ==
    \/ \E i \in Ids(t), row \in StoreRows(t) : ReqInsert(u, t, i, row)
    \/ \E i \in Ids(t), row \in StoreRows(t) : ReqUpdate(u, t, i, row)
    \/ \E i \in Ids(t) : ReqDelete(u, t, i)

\* every request user u can issue
Request(u) == \E t \in Tables : ReqSelect(u, t) \/ StoreWrite(u, t)

InitStore ==
    /\ goalsTable = [i \in GoalIds |-> NoRow]
    /\ transactionsTable = [i \in 1..MaxRows |-> NoRow]
    /\ billsTable = [i \in 1..MaxRows |-> NoRow]
    /\ investmentsTable = [i \in InvestmentIds |-> NoRow]
    /\ returned = {}
    /\ cleared = {}
    /\ IdleBillsPage
    /\ IdleDashboard
    /\ IdleTxPage
    /\ IdleOtherPages

NextStore == \E u \in Users : Request(u)

\* the four tables under every request of two users
SpecStore == InitStore /\ [][NextStore]_vars

NextFK ==
    \/ \E u \in Users, t \in {"goals", "investments"} : StoreWrite(u, t)
    \/ \E id \in GoalIds : deleteGoal(id)

\* the goals and investments tables alone, under every write of two users
SpecFK == InitStore /\ [][NextFK]_vars

NextFKDelete ==
    \/ \E u \in Users, t \in {"goals", "investments"} :
            \E i \in Ids(t), row \in StoreRows(t) : ReqInsert(u, t, i, row)
    \/ \E u \in Users, t \in {"goals", "investments"} :
            \E i \in Ids(t) : ReqDelete(u, t, i)
    \/ \E id \in GoalIds : deleteGoal(id)

\* the same tables under the inserts and deletes of two users: every content
\* of the two tables is reached without the updates
SpecFKDelete == InitStore /\ [][NextFKDelete]_vars

----------------------------------------------------------------------------
(* Claims about the store *)

Rows(tbl) == {i \in DOMAIN tbl : tbl[i] # NoRow}

\* user u's request left every row of another user as it was, created none
\* and returned none
NoForeignEffect(u) ==
    /\ returned' \subseteq {u}
    /\ \A t \in Tables : \A i \in Ids(t) :
        /\ (Tbl(t)[i] # NoRow /\ Tbl(t)[i].user_id # u) => TblNext(t)[i] = Tbl(t)[i]
        /\ (TblNext(t)[i] # NoRow /\ TblNext(t)[i].user_id # u)
                => TblNext(t)[i] = Tbl(t)[i]

\* C6 (as claimed): no request of a user returns, creates or changes a row of
\* another user, in any of the four tables
C6_NoCrossUserEffect == [][\A u \in Users : Request(u) => NoForeignEffect(u)]_vars

\* every goal_id references a goal of the investment's own user
OwnGoalOnly ==
    \A i \in Rows(investmentsTable) :
        investmentsTable[i].goal_id # Null =>
            goalsTable[investmentsTable[i].goal_id].user_id
                = investmentsTable[i].user_id

\* C7 (as claimed): an investment never references a goal of another user, and
\* no request of a user changes an investment of another user
C7_NoCrossUserGoalRef ==
    [][/\ OwnGoalOnly'
       /\ \A u \in Users : Request(u) =>
            \A i \in Rows(investmentsTable) :
                investmentsTable[i].user_id # u
                    => investmentsTable'[i] = investmentsTable[i]]_vars

\* C8: when a goal is deleted every investment stays: one that referenced the
\* goal keeps all fields but goal_id, which becomes null; any other is untouched
C8_DeleteGoalKeepsInvestments ==
    [][\A g \in GoalIds :
          (goalsTable[g] # NoRow /\ goalsTable'[g] = NoRow) =>
              \A i \in InvestmentIds :
                  investmentsTable'[i] =
                      IF investmentsTable[i] # NoRow /\ investmentsTable[i].goal_id = g
                      THEN [investmentsTable[i] EXCEPT !.goal_id = Null]
                      ELSE investmentsTable[i]]_vars

\* C8 witness: a goal delete has just cleared the goal_id of an investment, and
\* another investment still references its own, other goal
C8_Witness ==
    /\ cleared # {}
    /\ \A i \in cleared : investmentsTable[i] # NoRow
                           /\ investmentsTable[i].goal_id = Null
    /\ \E j \in Rows(investmentsTable) : investmentsTable[j].goal_id # Null

----------------------------------------------------------------------------
(* Aggregation: App.loadNetWorth and Dashboard.loadDashboardData *)

\* the response of the store: {data, error}; data is null when error is set
Response(t, tbl, uid, ok) ==
    [error |-> ~ok, data |-> IF ok THEN FetchUpTo(t, tbl, uid, Len(tbl)) ELSE <<>>]

\* res.data || []
DataOrEmpty(res) == IF res.error THEN <<>> ELSE res.data

\* Number(x) of a numeric column, which arrives as a JSON number
Number(x) == x

\* list.reduce((sum, r) => sum + Number(r[field]), 0)
RECURSIVE ReduceSum(_, _)
ReduceSum(list, field) ==
    IF list = <<>> THEN 0
    ELSE ReduceSum(SubSeq(list, 1, Len(list) - 1), field)
            + Number(list[Len(list)][field])

\* list.filter((t) => t.type === type)
FilterType(list, type) == SelectSeq(list, LAMBDA t : t.type = type)

\* variant for the sensitivity of C9: the net worth without the investments
loadNetWorthValueNoInvestments(transactionsRes, investmentsRes) ==
    LET txs == DataOrEmpty(transactionsRes)
        totalIncome == ReduceSum(FilterType(txs, "income"), "amount")
        totalExpenses == ReduceSum(FilterType(txs, "expense"), "amount")
    IN  totalIncome - totalExpenses

\* the value loadNetWorth passes to setNetWorth
loadNetWorthValue(transactionsRes, investmentsRes) ==
    LET txs == DataOrEmpty(transactionsRes)
        investments == DataOrEmpty(investmentsRes)
        totalIncome == ReduceSum(FilterType(txs, "income"), "amount")
        totalExpenses == ReduceSum(FilterType(txs, "expense"), "amount")
        investmentValue == ReduceSum(investments, "current_value")
    IN  totalIncome - totalExpenses + investmentValue

\* the record loadDashboardData passes to setStats
loadDashboardStats(transactionsRes, goalsRes, billsRes, investmentsRes) ==
    LET txs == DataOrEmpty(transactionsRes)
        goalRows == DataOrEmpty(goalsRes)
        pending == DataOrEmpty(billsRes)
        investments == DataOrEmpty(investmentsRes)
        totalIncome == ReduceSum(FilterType(txs, "income"), "amount")
        totalExpenses == ReduceSum(FilterType(txs, "expense"), "amount")
        investmentValue == ReduceSum(investments, "current_value")
    IN  [netWorth |-> totalIncome - totalExpenses + investmentValue,
         totalIncome |-> totalIncome,
         totalExpenses |-> totalExpenses,
         activeGoals |-> Len(goalRows),
         pendingBills |-> Len(pending),
         investmentValue |-> investmentValue]

\* .eq('status', 'pending') on the fetched bills
PendingOnly(res) ==
    [res EXCEPT !.data = SelectSeq(res.data, LAMBDA b : b.status = "pending")]

\* what the aggregation leaves alone
notDashboard == <<varsStore, varsBillsPage, varsTxPage, varsOtherPages>>

\* App: loadNetWorth, the two fetches answered
loadNetWorth ==
    /\ netWorth' = loadNetWorthValue(
                        Response("transactions", transactionsTable, Me, TRUE),
                        Response("investments", investmentsTable, Me, TRUE))
    /\ nwLoaded' = TRUE
    /\ UNCHANGED <<stats, dashLoading>>
    /\ UNCHANGED notDashboard

\* Dashboard: loadDashboardData, the four fetches answered
loadDashboardData ==
    /\ stats' = loadDashboardStats(
                        Response("transactions", transactionsTable, Me, TRUE),
                        Response("goals", goalsTable, Me, TRUE),
                        PendingOnly(Response("bills", billsTable, Me, TRUE)),
                        Response("investments", investmentsTable, Me, TRUE))
    /\ dashLoading' = FALSE
    /\ UNCHANGED <<netWorth, nwLoaded>>
    /\ UNCHANGED notDashboard

\* the rows the tables may hold when the client starts: the user's own rows,
\* and rows of another user
AggTransactionRows ==
    [user_id : {Me}, type : Types, amount : Amounts]
        \cup [user_id : Users \ {Me}, type : {"income"}, amount : {MaxAmount}]
AggInvestmentRows ==
    [user_id : {Me}, current_value : 0..MaxAmount, goal_id : {Null}]

InitAgg ==
    /\ transactionsTable \in [TransactionIds -> AggTransactionRows \cup {NoRow}]
    /\ investmentsTable \in [InvestmentIds -> AggInvestmentRows \cup {NoRow}]
    /\ goalsTable = [i \in GoalIds |-> NoRow]
    /\ billsTable = [i \in BillIds |-> NoRow]
    /\ returned = {}
    /\ cleared = {}
    /\ IdleBillsPage
    /\ IdleDashboard
    /\ IdleTxPage
    /\ IdleOtherPages

NextAgg == loadNetWorth \/ loadDashboardData

\* one snapshot of the store, aggregated by the sidebar and by the dashboard
SpecAgg == InitAgg /\ [][NextAgg]_vars

----------------------------------------------------------------------------
(* Claims about the aggregation *)

\* the sum of field over the rows ids of tbl
RECURSIVE SumOver(_, _, _)
SumOver(tbl, ids, field) ==
    IF ids = {} THEN 0
    ELSE LET i == CHOOSE x \in ids : TRUE
         IN  tbl[i][field] + SumOver(tbl, ids \ {i}, field)

Mine(tbl) == {i \in Rows(tbl) : tbl[i].user_id = Me}
MineOfType(type) == {i \in Mine(transactionsTable) : transactionsTable[i].type = type}

IncomeSum == SumOver(transactionsTable, MineOfType("income"), "amount")
ExpenseSum == SumOver(transactionsTable, MineOfType("expense"), "amount")
InvestmentSum == SumOver(investmentsTable, Mine(investmentsTable), "current_value")

\* C9: the net worth of loadDashboardData and of loadNetWorth is the sum of the
\* income amounts, minus the sum of the expense amounts, plus the sum of the
\* investments' current_value; the two agree; and with no investment it is
\* totalIncome - totalExpenses
C9_NetWorth ==
    /\ nwLoaded => netWorth = IncomeSum - ExpenseSum + InvestmentSum
    /\ ~dashLoading => stats.netWorth = IncomeSum - ExpenseSum + InvestmentSum
    /\ (nwLoaded /\ ~dashLoading) => netWorth = stats.netWorth
    /\ (~dashLoading /\ Mine(investmentsTable) = {})
            => stats.netWorth = stats.totalIncome - stats.totalExpenses

\* C9 witness: both are computed from income, an expense and an investment
C9_Witness ==
    /\ nwLoaded /\ ~dashLoading
    /\ MineOfType("income") # {} /\ MineOfType("expense") # {}
    /\ IncomeSum > 0 /\ ExpenseSum > 0 /\ InvestmentSum > 0
    /\ netWorth = IncomeSum - ExpenseSum + InvestmentSum

----------------------------------------------------------------------------
(* Transactions page: pages/Transactions.tsx, and its copy with a text date *)
(* field (src/unnamed/part_000).  The category, description and date fields *)
(* are not modelled here.                                                   *)

TxPages == {"Transactions.tsx", "part_000"}

\* parseFloat of the text of the number input
parseFloat(text) == text[1]

\* the browser's check of the amount input before it fires onSubmit:
\* Transactions.tsx has required min="0" step="0.01", part_000 only required
AmountInputValid(page, text) ==
    /\ text # EmptyText
    /\ page = "Transactions.tsx" => parseFloat(text) >= 0

\* what the Transactions page leaves alone
notTx == <<goalsTable, billsTable, investmentsTable, returned, cleared,
           varsBillsPage, varsDashboard, varsOtherPages>>

\* loadTransactions against the table tbl
loadTransactions(tbl, ok) ==
    /\ txLoading' = FALSE
    /\ transactions' = IF ok THEN FetchUpTo("transactions", tbl, Me, Len(tbl))
                       ELSE transactions

\* useEffect on mount
LoadTransactions ==
    /\ loadTransactions(transactionsTable, TRUE)
    /\ UNCHANGED <<transactionsTable, showModal, editingTransaction, formData, txPage>>
    /\ UNCHANGED notTx

\* the Add button: setEditingTransaction(null); resetForm(); setShowModal(true)
OpenAddModal ==
    /\ ~txLoading /\ ~showModal
    /\ showModal' = TRUE
    /\ editingTransaction' = NoRow
    /\ formData' = ResetTxForm
    /\ UNCHANGED <<transactionsTable, transactions, txLoading, txPage>>
    /\ UNCHANGED notTx

\* openEditModal(transaction)
openEditModal ==
    \E k \in 1..Len(transactions) :
        /\ ~txLoading /\ ~showModal
        /\ editingTransaction' = transactions[k]
        /\ formData' = [type |-> transactions[k].type,
                        amount |-> TextOf(transactions[k].amount)]
        /\ showModal' = TRUE
        /\ UNCHANGED <<transactionsTable, transactions, txLoading, txPage>>
        /\ UNCHANGED notTx

\* the type buttons and the amount input of the form
SetFormData ==
    /\ showModal
    /\ \/ \E v \in Types : formData' = [formData EXCEPT !.type = v]
       \/ \E v \in Amounts : formData' = [formData EXCEPT !.amount = TextOf(v)]
    /\ UNCHANGED <<transactionsTable, transactions, txLoading, showModal,
                   editingTransaction, txPage>>
    /\ UNCHANGED notTx

\* the X and Cancel buttons
CloseModal ==
    /\ showModal
    /\ showModal' = FALSE
    /\ editingTransaction' = NoRow
    /\ formData' = ResetTxForm
    /\ UNCHANGED <<transactionsTable, transactions, txLoading, txPage>>
    /\ UNCHANGED notTx

\* the row handleSubmit inserts
SubmittedRow(fd) == [user_id |-> Me, type |-> fd.type, amount |-> parseFloat(fd.amount)]

\* the row handleSubmit's update of row id i writes: type and amount replaced
TxPatched(tbl, i, fd) ==
    IF tbl[i] = NoRow THEN NoRow
    ELSE [tbl[i] EXCEPT !.type = fd.type, !.amount = parseFloat(fd.amount)]

\* handleSubmit: update by id when editing, else insert; then close the modal,
\* reset the form and loadTransactions
TxHandleSubmit ==
    /\ showModal
    /\ AmountInputValid(txPage, formData.amount)
    /\ IF editingTransaction # NoRow
       THEN transactionsTable' =
                StoreUpdate("transactions", transactionsTable, Me,
                            editingTransaction.id,
                            TxPatched(transactionsTable, editingTransaction.id, formData))
       ELSE \E i \in TransactionIds :
                /\ transactionsTable[i] = NoRow
                /\ TransactionsPolicy(Me, SubmittedRow(formData))
                /\ transactionsTable' =
                        [transactionsTable EXCEPT ![i] = SubmittedRow(formData)]
    /\ showModal' = FALSE
    /\ editingTransaction' = NoRow
    /\ formData' = ResetTxForm
    /\ loadTransactions(transactionsTable', TRUE)
    /\ UNCHANGED txPage
    /\ UNCHANGED notTx

\* deleteTransaction(id), confirmed
deleteTransaction ==
    \E k \in 1..Len(transactions) :
        /\ ~txLoading
        /\ transactionsTable' = StoreDelete("transactions", transactionsTable, Me,
                                            transactions[k].id)
        /\ loadTransactions(transactionsTable', TRUE)
        /\ UNCHANGED <<showModal, editingTransaction, formData, txPage>>
        /\ UNCHANGED notTx

\* totalIncome and totalExpenses of the page, computed on every render
TxTotalIncome == ReduceSum(FilterType(transactions, "income"), "amount")
TxTotalExpenses == ReduceSum(FilterType(transactions, "expense"), "amount")

InitTx ==
    /\ transactionsTable = [i \in TransactionIds |-> NoRow]
    /\ goalsTable = [i \in GoalIds |-> NoRow]
    /\ billsTable = [i \in BillIds |-> NoRow]
    /\ investmentsTable = [i \in InvestmentIds |-> NoRow]
    /\ returned = {}
    /\ cleared = {}
    /\ IdleBillsPage
    /\ IdleDashboard
    /\ transactions = <<>>
    /\ txLoading = TRUE
    /\ showModal = FALSE
    /\ editingTransaction = NoRow
    /\ formData = ResetTxForm
    /\ txPage \in TxPages
    /\ IdleOtherPages

NextTx ==
    \/ LoadTransactions
    \/ OpenAddModal
    \/ openEditModal
    \/ SetFormData
    \/ CloseModal
    \/ TxHandleSubmit
    \/ deleteTransaction

\* a session of either copy of the Transactions page on an empty table
SpecTx == InitTx /\ [][NextTx]_vars

\* C10 (as claimed): totalIncome and totalExpenses are never negative, and are
\* 0 for an empty list
C10_TotalsNonNegative ==
    /\ TxTotalIncome >= 0
    /\ TxTotalExpenses >= 0
    /\ transactions = <<>> => (TxTotalIncome = 0 /\ TxTotalExpenses = 0)

\* C11 (as claimed): after any sequence of create and edit submissions every
\* stored transaction has amount >= 0 and type income or expense
C11_StoredAmountNonNegative ==
    \A i \in TransactionIds :
        transactionsTable[i] # NoRow =>
            /\ transactionsTable[i].amount >= 0
            /\ transactionsTable[i].type \in Types

----------------------------------------------------------------------------
(* Visual Analysis: loadAnalysisData.  JavaScript numbers are modelled as   *)
(* exact rationals num/den; the values that are not finite numbers are      *)
(* kept apart by their tag t.                                               *)

MonthLen == 2       \* days in a month of the model's calendar

JsNum(n) == [t |-> "number", num |-> n, den |-> 1]
JsNaN == [t |-> "NaN", num |-> 0, den |-> 1]
JsInfinity == [t |-> "Infinity", num |-> 0, den |-> 1]
JsNegInfinity == [t |-> "-Infinity", num |-> 0, den |-> 1]
\* a string that does not read as a number
JsString == [t |-> "string", num |-> 0, den |-> 1]
\* a function object, such as Object.prototype.constructor
JsFunction == [t |-> "function", num |-> 0, den |-> 1]
JsUndefined == [t |-> "undefined", num |-> 0, den |-> 1]

\* the categories typed into the free-text category input: two plain names, a
\* name that is a canonical array index, and a name every object inherits
CategoryNames == {"food", "rent", "7", "constructor"}

\* the property names that are canonical array indices, with their value
CanonicalIndex == [k \in {"7"} |-> 7]

\* the property names a plain object {} inherits from Object.prototype
ObjectPrototype == {"constructor"}

\* a plain object: its own properties as [key, value] in insertion order
HasOwn(obj, key) == \E k \in 1..Len(obj) : obj[k].key = key
OwnSlot(obj, key) == CHOOSE k \in 1..Len(obj) : obj[k].key = key

\* obj[key]
Get(obj, key) ==
    IF HasOwn(obj, key) THEN obj[OwnSlot(obj, key)].value
    ELSE IF key \in ObjectPrototype THEN JsFunction
    ELSE JsUndefined

\* obj[key] = v
Set(obj, key, v) ==
    IF HasOwn(obj, key) THEN [obj EXCEPT ![OwnSlot(obj, key)].value = v]
    ELSE Append(obj, [key |-> key, value |-> v])

\* v || 0
OrZero(v) ==
    IF v.t \in {"undefined", "NaN"} \/ (v.t = "number" /\ v.num = 0)
    THEN JsNum(0) ELSE v

\* a + b with b a number: addition of numbers, else string concatenation
Plus(a, b) ==
    CASE a.t = "number" -> JsNum(a.num + b.num)
      [] a.t \in {"string", "function"} -> JsString
      [] OTHER -> a

\* a - b
Minus(a, b) ==
    IF a.t = "number" /\ b.t = "number" THEN JsNum(a.num - b.num) ELSE JsNaN

\* a / b with b an integer-valued number
Divide(a, b) ==
    IF a.t # "number" THEN JsNaN
    ELSE IF b.num # 0 THEN [t |-> "number", num |-> a.num, den |-> b.num]
    ELSE IF a.num = 0 THEN JsNaN
    ELSE IF a.num > 0 THEN JsInfinity
    ELSE JsNegInfinity

\* v * k with k a positive integer
Times(v, k) == IF v.t = "number" THEN [v EXCEPT !.num = v.num * k] ELSE v

\* the forEach of lines 41-43 over the first n transactions of list
RECURSIVE CategoryTotals(_, _)
CategoryTotals(list, n) ==
    IF n = 0 THEN <<>>
    ELSE LET obj == CategoryTotals(list, n - 1)
             t == list[n]
         IN  Set(obj, t.category,
                 Plus(OrZero(Get(obj, t.category)), JsNum(Number(t.amount))))

\* Object.entries(obj): the canonical array indices in ascending numeric
\* order, then the other names in insertion order
ObjectEntries(obj) ==
    LET idx == SelectSeq(obj, LAMBDA e : e.key \in DOMAIN CanonicalIndex)
        str == SelectSeq(obj, LAMBDA e : e.key \notin DOMAIN CanonicalIndex)
        p == CHOOSE q \in IndexPermutations(Len(idx)) :
                \A a, b \in 1..Len(idx) :
                    a < b => CanonicalIndex[idx[q[a]].key] < CanonicalIndex[idx[q[b]].key]
    IN  [k \in 1..Len(idx) |-> idx[p[k]]] \o str

\* the map of lines 50-54: one row per entry
CategoryData(entries, total) ==
    [k \in 1..Len(entries) |->
        [category |-> entries[k].key,
         amount |-> entries[k].value,
         percentage |-> Times(Divide(entries[k].value, JsNum(total)), 100)]]

\* the comparator (a, b) => b.amount - a.amount, as sort reads it: the sign
\* of the result, NaN read as +0
Compare(a, b) ==
    LET v == Minus(b.amount, a.amount)
    IN  IF v.t # "number" THEN 0
        ELSE IF v.num < 0 THEN -1 ELSE IF v.num > 0 THEN 1 ELSE 0

\* is the comparator consistent on rows (ECMAScript: a consistent comparator)
ConsistentComparator(rows) ==
    \A a, b, c \in 1..Len(rows) :
        (Compare(rows[a], rows[b]) = 0 /\ Compare(rows[b], rows[c]) = 0)
            => Compare(rows[a], rows[c]) = 0

\* rows.sort(comparator): the stable sort when the comparator is consistent,
\* else an implementation-defined order
SortResults(rows) ==
    {[k \in 1..Len(rows) |-> rows[p[k]]] : p \in
        {q \in IndexPermutations(Len(rows)) :
            ConsistentComparator(rows) =>
                \A x, y \in 1..Len(rows) : x < y =>
                    \/ Compare(rows[q[x]], rows[q[y]]) < 0
                    \/ Compare(rows[q[x]], rows[q[y]]) = 0 /\ q[x] < q[y]}}

\* the calendar month of a day number
MonthOfDay(d) == (d - 1) \div MonthLen + 1

\* new Date(t.date).toLocaleDateString('en-US', {month, year}) on a client at
\* offset z: the month of the local calendar date of 00:00 UTC of t.date
MonthLabel(date, z) == MonthOfDay(LocalDay(ParseDate(date), z))

\* the forEach of lines 66-76 over the first n transactions of list
RECURSIVE MonthlyMap(_, _, _)
MonthlyMap(list, n, z) ==
    IF n = 0 THEN <<>>
    ELSE LET map == MonthlyMap(list, n - 1, z)
             t == list[n]
             month == MonthLabel(t.date, z)
             zero == [income |-> 0, expense |-> 0]
             slots == IF HasOwn(map, month) THEN map
                     ELSE Append(map, [key |-> month, value |-> zero])
             k == OwnSlot(slots, month)
         IN  IF t.type = "income"
             THEN [slots EXCEPT ![k].value.income = @ + Number(t.amount)]
             ELSE [slots EXCEPT ![k].value.expense = @ + Number(t.amount)]

\* the map of lines 78-81
MonthlyArray(map) ==
    [k \in 1..Len(map) |->
        [month |-> map[k].key, income |-> map[k].value.income,
         expense |-> map[k].value.expense]]

\* loadAnalysisData against the table tbl
loadAnalysisData(tbl, ok) ==
    /\ anLoading' = FALSE
    /\ IF ok
       THEN LET txs == DataOrEmpty(Response("transactions", tbl, Me, TRUE))
                incomeTransactions == FilterType(txs, "income")
                expenseTransactions == FilterType(txs, "expense")
                totalIncome == ReduceSum(incomeTransactions, "amount")
                totalExpense == ReduceSum(expenseTransactions, "amount")
                incomeCategories ==
                    CategoryTotals(incomeTransactions, Len(incomeTransactions))
                expenseCategories ==
                    CategoryTotals(expenseTransactions, Len(expenseTransactions))
                incomeData == CategoryData(ObjectEntries(incomeCategories), totalIncome)
                expenseData == CategoryData(ObjectEntries(expenseCategories), totalExpense)
            IN  /\ incomeByCategory' \in SortResults(incomeData)
                /\ expenseByCategory' \in SortResults(expenseData)
                /\ monthlyData' = MonthlyArray(MonthlyMap(txs, Len(txs), tz))
       ELSE UNCHANGED <<incomeByCategory, expenseByCategory, monthlyData>>

\* useEffect on mount
LoadAnalysisData ==
    /\ loadAnalysisData(transactionsTable, TRUE)
    /\ UNCHANGED <<varsStore, varsBillsPage, varsDashboard, varsTxPage, rateShown,
                   varsGoalsPage, varsExport, varsAsync>>

\* the user's transactions when the page opens
AnalysisRows ==
    [user_id : {Me}, type : Types, amount : Amounts, category : CategoryNames,
     date : Days]

InitAnalysis ==
    /\ transactionsTable \in [TransactionIds -> AnalysisRows \cup {NoRow}]
    /\ goalsTable = [i \in GoalIds |-> NoRow]
    /\ billsTable = [i \in BillIds |-> NoRow]
    /\ investmentsTable = [i \in InvestmentIds |-> NoRow]
    /\ returned = {}
    /\ cleared = {}
    /\ bills = <<>>
    /\ loading = TRUE
    /\ now = 24
    /\ tz \in TZOffsets
    /\ loadedToday = FALSE
    /\ IdleDashboard
    /\ IdleTxPage
    /\ IdleOtherPages

NextAnalysis == LoadAnalysisData

\* the Visual Analysis page opened on any stored transactions, on any client
SpecAnalysis == InitAnalysis /\ [][NextAnalysis]_vars

----------------------------------------------------------------------------
(* Claims about the Visual Analysis page *)

\* the displayed breakdown of a type
Breakdown(type) == IF type = "income" THEN incomeByCategory ELSE expenseByCategory

\* the total of the stored amounts of a type
TotalForType(type) == SumOver(transactionsTable, MineOfType(type), "amount")

\* the sum of the numerators of the first n percentages of rows
RECURSIVE PercentNumSum(_, _)
PercentNumSum(rows, n) ==
    IF n = 0 THEN 0 ELSE PercentNumSum(rows, n - 1) + rows[n].percentage.num

\* the stored transactions have amounts >= 0 (C11) and plain category names (C13)
PlainTransactions ==
    \A i \in Mine(transactionsTable) :
        /\ transactionsTable[i].amount >= 0
        /\ transactionsTable[i].category \notin ObjectPrototype

\* C12 (as claimed): for each type the percentages of the breakdown sum to 100
\* when the type's total is non-zero, and every percentage is 0 when the total
\* is zero.  Stated for amounts >= 0 and plain category names, so that only the
\* division itself decides it
C12_PercentagesSum ==
    (~anLoading /\ PlainTransactions) =>
        \A type \in Types :
            LET rows == Breakdown(type)
                total == TotalForType(type)
            IN  IF total # 0
                THEN /\ \A k \in 1..Len(rows) :
                            rows[k].percentage.t = "number"
                            /\ rows[k].percentage.den = total
                     /\ PercentNumSum(rows, Len(rows)) = 100 * total
                ELSE \A k \in 1..Len(rows) : rows[k].percentage = JsNum(0)

\* the stored transactions of a type and a category
MineOfTypeIn(type, category) ==
    {i \in MineOfType(type) : transactionsTable[i].category = category}

\* the categories occurring among the stored transactions of a type
CategoriesOf(type) == {transactionsTable[i].category : i \in MineOfType(type)}

\* C13 (as claimed): the breakdown of a type has exactly one row per distinct
\* category of the type's transactions, each row's amount is the sum of the
\* amounts of that category, and the row amounts sum to the type's total
C13_OneRowPerCategory ==
    ~anLoading =>
        \A type \in Types :
            LET rows == Breakdown(type)
            IN  /\ {rows[k].category : k \in 1..Len(rows)} = CategoriesOf(type)
                /\ Len(rows) = Cardinality(CategoriesOf(type))
                /\ \A k \in 1..Len(rows) :
                        rows[k].amount =
                            JsNum(SumOver(transactionsTable,
                                          MineOfTypeIn(type, rows[k].category), "amount"))
                /\ ReduceSum([k \in 1..Len(rows) |-> [amount |-> rows[k].amount.num]],
                             "amount") = TotalForType(type)

\* the position in the fetched list at which a category of a type first occurs
FirstSeen(type, category) ==
    CHOOSE i \in MineOfTypeIn(type, category) :
        \A j \in MineOfTypeIn(type, category) : i <= j

\* C14 (as claimed): the breakdown rows are in descending order of amount, rows
\* of equal amount in the order in which their categories were first met in the
\* transaction list.  Stated for category names no object inherits (C13)
C14_DescendingStable ==
    (~anLoading /\ \A i \in Mine(transactionsTable) :
                        transactionsTable[i].category \notin ObjectPrototype) =>
        \A type \in Types :
            LET rows == Breakdown(type)
            IN  \A k, l \in 1..Len(rows) : k < l =>
                    \/ rows[k].amount.num > rows[l].amount.num
                    \/ /\ rows[k].amount.num = rows[l].amount.num
                       /\ FirstSeen(type, rows[k].category)
                            < FirstSeen(type, rows[l].category)

\* the stored transactions of a type dated in calendar month m
MineOfTypeInMonth(type, m) ==
    {i \in MineOfType(type) : MonthOfDay(transactionsTable[i].date) = m}

\* C15 (as claimed): the monthly series has the calendar months of the stored
\* dates, and each month's income and expense are the sums of the amounts of
\* the transactions dated in that month, at every timezone offset of the client
C15_MonthOfStoredDate ==
    ~anLoading =>
        /\ {monthlyData[k].month : k \in 1..Len(monthlyData)}
                = {MonthOfDay(transactionsTable[i].date) : i \in Mine(transactionsTable)}
        /\ \A k \in 1..Len(monthlyData) :
                /\ monthlyData[k].income =
                        SumOver(transactionsTable,
                                MineOfTypeInMonth("income", monthlyData[k].month), "amount")
                /\ monthlyData[k].expense =
                        SumOver(transactionsTable,
                                MineOfTypeInMonth("expense", monthlyData[k].month), "amount")

----------------------------------------------------------------------------
(* Dashboard: the Savings Rate of the Financial Summary *)

\* variant for the sensitivity of C16: the rate without the test of totalIncome
savingsRateUnguarded(s) ==
    Times(Divide(JsNum(s.totalIncome - s.totalExpenses), JsNum(s.totalIncome)), 100)

\* the expression of the bar's width: totalIncome > 0 ? (...) * 100 : 0
savingsRate(s) ==
    IF s.totalIncome > 0
    THEN Times(Divide(JsNum(s.totalIncome - s.totalExpenses), JsNum(s.totalIncome)), 100)
    ELSE JsNum(0)

\* |x|
Abs(x) == IF x < 0 THEN 0 - x ELSE x

\* v.toFixed(1) of a finite number with a positive denominator: the number of
\* tenths, rounded to the nearest, halves away from zero
toFixed1(v) ==
    LET q == (Abs(v.num) * 20 + v.den) \div (2 * v.den)
    IN  IF v.num < 0 THEN 0 - q ELSE q

\* the text of the rate: toFixed(1) of the rate, or the number 0
savingsRateText(s) ==
    IF s.totalIncome > 0
    THEN [fixed |-> TRUE, tenths |-> toFixed1(savingsRate(s))]
    ELSE [fixed |-> FALSE, tenths |-> 0]

MaxTotal == 4       \* the totals of the rendered stats range over -MaxTotal..MaxTotal

\* the Financial Summary rendered from stats
RenderSavingsRate ==
    /\ ~dashLoading
    /\ rateShown' = [width |-> savingsRate(stats), text |-> savingsRateText(stats)]
    /\ UNCHANGED <<varsStore, varsBillsPage, varsDashboard, varsTxPage, varsAnalysis,
                   varsGoalsPage, varsExport, varsAsync>>

\* the dashboard loaded, with any totals in stats
InitRate ==
    /\ \E income, expenses \in (0 - MaxTotal)..MaxTotal :
            stats = [netWorth |-> income - expenses, totalIncome |-> income,
                     totalExpenses |-> expenses, activeGoals |-> 0,
                     pendingBills |-> 0, investmentValue |-> 0]
    /\ dashLoading = FALSE
    /\ netWorth = 0
    /\ nwLoaded = FALSE
    /\ goalsTable = [i \in GoalIds |-> NoRow]
    /\ transactionsTable = [i \in TransactionIds |-> NoRow]
    /\ billsTable = [i \in BillIds |-> NoRow]
    /\ investmentsTable = [i \in InvestmentIds |-> NoRow]
    /\ returned = {}
    /\ cleared = {}
    /\ IdleBillsPage
    /\ IdleTxPage
    /\ IdleOtherPages

NextRate == RenderSavingsRate

\* the Savings Rate rendered for any stats
SpecRate == InitRate /\ [][NextRate]_vars

\* C16: the savings rate on the dashboard is (totalIncome - totalExpenses) /
\* totalIncome * 100 when totalIncome > 0 and 0 when totalIncome is 0, its text
\* is that rate to one decimal, and no division by zero occurs
C16_SavingsRate ==
    rateShown # NoRow =>
        LET r == rateShown.width
            text == rateShown.text
        IN  /\ r.t = "number" /\ r.den # 0
            /\ stats.totalIncome > 0 =>
                    /\ r.num * stats.totalIncome
                            = (stats.totalIncome - stats.totalExpenses) * 100 * r.den
                    /\ text.fixed
                    /\ Abs(20 * r.num - 2 * text.tenths * r.den) <= r.den
            /\ stats.totalIncome = 0 => (r = JsNum(0) /\ text.tenths = 0)

\* C16 witness: the rate is rendered for expenses and no income
C16_Witness ==
    /\ rateShown # NoRow
    /\ stats.totalIncome = 0 /\ stats.totalExpenses > 0
    /\ rateShown.width = JsNum(0)

----------------------------------------------------------------------------
(* Goals page: pages/InvestmentGoals.tsx.  The title, deadline, category    *)
(* and description of a goal are not modelled.                              *)

MaxGoalAmount == 2  \* target and current amounts range over 0..MaxGoalAmount

\* the amounts the form's number inputs accept: required, min="0"
GoalAmounts == 0..MaxGoalAmount

\* the row handleSubmit inserts
GoalRow(target, current) ==
    [user_id |-> Me, target_amount |-> target, current_amount |-> current]

\* the row handleSubmit's update of row id i writes
GoalPatched(tbl, i, target, current) ==
    IF tbl[i] = NoRow THEN NoRow
    ELSE [tbl[i] EXCEPT !.target_amount = target, !.current_amount = current]

\* useEffect on mount
LoadGoals ==
    /\ loadGoals(goalsTable, TRUE)
    /\ UNCHANGED varsStore
    /\ UNCHANGED notGoalsPage

\* handleSubmit with editingGoal null: insert, then loadGoals
GoalsHandleSubmitAdd ==
    \E i \in GoalIds, target, current \in GoalAmounts :
        /\ ~goalsLoading
        /\ goalsTable[i] = NoRow
        /\ GoalsPolicy(Me, GoalRow(target, current))
        /\ goalsTable' = [goalsTable EXCEPT ![i] = GoalRow(target, current)]
        /\ loadGoals(goalsTable', TRUE)
        /\ UNCHANGED <<transactionsTable, billsTable, investmentsTable, returned, cleared>>
        /\ UNCHANGED notGoalsPage

\* handleSubmit with editingGoal set: update by id, then loadGoals
GoalsHandleSubmitEdit ==
    \E k \in 1..Len(goals), target, current \in GoalAmounts :
        /\ ~goalsLoading
        /\ goalsTable' = StoreUpdate("goals", goalsTable, Me, goals[k].id,
                            GoalPatched(goalsTable, goals[k].id, target, current))
        /\ loadGoals(goalsTable', TRUE)
        /\ UNCHANGED <<transactionsTable, billsTable, investmentsTable, returned, cleared>>
        /\ UNCHANGED notGoalsPage

\* the delete button of a goal card
DeleteGoal ==
    \E k \in 1..Len(goals) :
        /\ ~goalsLoading
        /\ deleteGoal(goals[k].id)

\* the progress of a goal card:
\* (Number(goal.current_amount) / Number(goal.target_amount)) * 100
progress(goal) ==
    Times(Divide(JsNum(Number(goal.current_amount)), JsNum(Number(goal.target_amount))),
          100)

InitGoals ==
    /\ goalsTable = [i \in GoalIds |-> NoRow]
    /\ transactionsTable = [i \in TransactionIds |-> NoRow]
    /\ billsTable = [i \in BillIds |-> NoRow]
    /\ investmentsTable = [i \in InvestmentIds |-> NoRow]
    /\ returned = {}
    /\ cleared = {}
    /\ IdleBillsPage
    /\ IdleDashboard
    /\ IdleTxPage
    /\ IdleOtherPages

NextGoals ==
    \/ LoadGoals
    \/ GoalsHandleSubmitAdd
    \/ GoalsHandleSubmitEdit
    \/ DeleteGoal

\* a session of the Goals page on an empty table
SpecGoals == InitGoals /\ [][NextGoals]_vars

\* C17 (as claimed): every displayed goal with target_amount = 0 has the
\* progress 0, a finite number
C17_ZeroTargetProgress ==
    ~goalsLoading =>
        \A k \in 1..Len(goals) :
            goals[k].target_amount = 0 => progress(goals[k]) = JsNum(0)

----------------------------------------------------------------------------
(* Export page: pages/ExportData.tsx.  A text is a sequence of characters;  *)
(* a fetched row is an object, its [key, value] entries in column order.    *)

MaxLen == 2         \* the length of a text field
MaxRecords == 3     \* the length of a fetched list

\* the characters of a text field: a letter, and the characters that the CSV
\* and the JSON forms treat specially
ExportChars == {"a", ",", "\"", "\n", "\\"}
Texts == UNION {[1..n -> ExportChars] : n \in 0..MaxLen}

\* the values of a field of a fetched row
JsonNull == [t |-> "null", s |-> <<>>, n |-> 0]
Undefined == [t |-> "undefined", s |-> <<>>, n |-> 0]
Str(s) == [t |-> "string", s |-> s, n |-> 0]
Num(n) == [t |-> "number", s |-> <<>>, n |-> n]

Entry(key, value) == [key |-> key, value |-> value]

\* column names
KeyId == <<"i", "d">>
KeyName == <<"n", "a", "m", "e">>
KeyNote == <<"n", "o", "t", "e">>

\* Object.keys(obj): the column names are no array indices, so the keys come
\* in insertion order
ObjectKeys(obj) == [k \in 1..Len(obj) |-> obj[k].key]

\* row[header]
Field(row, header) ==
    IF HasOwn(row, header) THEN row[OwnSlot(row, header)].value ELSE Undefined

\* does the text s contain the character c: s.includes(c)
Includes(s, c) == \E k \in 1..Len(s) : s[k] = c

\* s.replace(/"/g, '""')
RECURSIVE DoubleQuotes(_)
DoubleQuotes(s) ==
    IF s = <<>> THEN <<>>
    ELSE (IF Head(s) = "\"" THEN <<"\"", "\"">> ELSE <<Head(s)>>)
            \o DoubleQuotes(Tail(s))

DigitChars == <<"0", "1", "2", "3", "4", "5", "6", "7", "8", "9">>

\* the decimal digits of n >= 0
RECURSIVE Digits(_)
Digits(n) ==
    IF n < 10 THEN <<DigitChars[n + 1]>>
    ELSE Digits(n \div 10) \o <<DigitChars[(n % 10) + 1]>>

\* String(n) of an integer
NumberToString(n) == IF n < 0 THEN <<"-">> \o Digits(0 - n) ELSE Digits(n)

\* String(value) of a string or a number
StringOf(value) == IF value.t = "number" THEN NumberToString(value.n) ELSE value.s

\* parts.join(sep)
RECURSIVE Join(_, _)
Join(parts, sep) ==
    IF parts = <<>> THEN <<>>
    ELSE IF Len(parts) = 1 THEN parts[1]
    ELSE parts[1] \o sep \o Join(Tail(parts), sep)

\* variant for the sensitivity of C18: the field wrapped, its quotes not doubled
csvFieldQuotesKept(value) ==
    IF value.t \in {"null", "undefined"} THEN <<>>
    ELSE LET stringValue == StringOf(value)
         IN  IF Includes(stringValue, ",") \/ Includes(stringValue, "\"")
                    \/ Includes(stringValue, "\n")
             THEN <<"\"">> \o stringValue \o <<"\"">>
             ELSE stringValue

\* the callback of headers.map, lines 32-40
csvField(value) ==
    IF value.t \in {"null", "undefined"} THEN <<>>
    ELSE LET stringValue == StringOf(value)
         IN  IF Includes(stringValue, ",") \/ Includes(stringValue, "\"")
                    \/ Includes(stringValue, "\n")
             THEN <<"\"">> \o DoubleQuotes(stringValue) \o <<"\"">>
             ELSE stringValue

\* variant for the sensitivity of C19: each row emitted under its own keys
csvRowsOwnKeys(data) ==
    [r \in 1..Len(data) |->
        [j \in 1..Len(data[r]) |-> csvField(data[r][j].value)]]

\* data.map(row => headers.map(...)), before the joins
csvRows(data) ==
    LET headers == ObjectKeys(data[1])
    IN  [r \in 1..Len(data) |->
            [j \in 1..Len(headers) |-> csvField(Field(data[r], headers[j]))]]

\* csvContent, lines 28-42
csvContent(data) ==
    LET headers == ObjectKeys(data[1])
        rows == csvRows(data)
    IN  Join(<<Join(headers, <<",">>)>>
                \o [r \in 1..Len(rows) |-> Join(rows[r], <<",">>)],
             <<"\n">>)

\* what the Export page leaves alone
notExport == <<varsStore, varsBillsPage, varsDashboard, varsTxPage, varsAnalysis,
               rateShown, varsGoalsPage, varsAsync>>

\* exportToCSV(tableName, fileName), the store having answered
exportToCSV(tableName) ==
    LET res == fetched[tableName]
    IN  /\ expLoading' = FALSE
        /\ IF res.error \/ Len(res.data) = 0
           THEN /\ exportSuccess' = FALSE
                /\ UNCHANGED <<download, csvFields>>
           ELSE /\ download' = [type |-> "text/csv", name |-> tableName,
                                content |-> csvContent(res.data)]
                /\ csvFields' = csvRows(res.data)
                /\ exportSuccess' = TRUE
        /\ UNCHANGED fetched
        /\ UNCHANGED notExport

\* an Export CSV button
ExportToCSV == \E tableName \in Tables : exportToCSV(tableName)

\* setTimeout(() => setExportSuccess(false), 3000)
ExportSuccessTimeout ==
    /\ exportSuccess
    /\ exportSuccess' = FALSE
    /\ UNCHANGED <<fetched, expLoading, download, csvFields>>
    /\ UNCHANGED notExport

\* the values of the text column of the first row
FieldValues == {JsonNull, Num(0 - 10)} \cup {Str(s) : s \in Texts}

\* the values of the text column of the rows after it
ProbeValues == {JsonNull, Str(<<"\"", ",">>)}

FirstRecords == {<<Entry(KeyId, Num(1)), Entry(KeyName, v)>> : v \in FieldValues}

\* rows with the first row's columns, a row lacking one, a row with one more
OtherRecords ==
    {<<Entry(KeyId, Num(2)), Entry(KeyName, v)>> : v \in ProbeValues}
        \cup {<<Entry(KeyId, Num(2))>>}
        \cup {<<Entry(KeyId, Num(2)), Entry(KeyNote, Str(<<"a">>)),
                Entry(KeyName, Str(<<"a">>))>>}

\* the lists a select may answer with
ExportLists ==
    {<<>>} \cup
    {<<f>> \o rest : f \in FirstRecords,
                     rest \in UNION {[1..n -> OtherRecords] : n \in 0..(MaxRecords - 1)}}

\* a JSON array and a JSON object (its entries in insertion order)
Arr(items) == [t |-> "array", items |-> items]
Obj(entries) == [t |-> "object", entries |-> entries]

\* the names of the members of allData
KeyGoals == <<"g", "o", "a", "l", "s">>
KeyTransactions == <<"t", "r", "a", "n", "s", "a", "c", "t", "i", "o", "n", "s">>
KeyBills == <<"b", "i", "l", "l", "s">>
KeyInvestments == <<"i", "n", "v", "e", "s", "t", "m", "e", "n", "t", "s">>
KeyExportedAt == <<"e", "x", "p", "o", "r", "t", "e", "d", "_", "a", "t">>

\* new Date().toISOString() at instant t: a text that names the instant
toISOString(t) == <<"T">> \o NumberToString(t) \o <<"Z">>

\* variant for the sensitivity of C20: only the double quote is escaped
JsonEscapeQuoteOnly(c) == IF c = "\"" THEN <<"\\", "\"">> ELSE <<c>>

\* JSON.stringify of one character of a string
JsonEscape(c) ==
    CASE c = "\"" -> <<"\\", "\"">>
      [] c = "\\" -> <<"\\", "\\">>
      [] c = "\n" -> <<"\\", "n">>
      [] OTHER -> <<c>>

\* JSON.stringify of a string
RECURSIVE JsonQuoteChars(_)
JsonQuoteChars(s) ==
    IF s = <<>> THEN <<>> ELSE JsonEscape(Head(s)) \o JsonQuoteChars(Tail(s))
JsonQuote(s) == <<"\"">> \o JsonQuoteChars(s) \o <<"\"">>

\* n spaces
Spaces(n) == [k \in 1..n |-> " "]

\* JSON.stringify(value, null, 2) of a value nested indent spaces deep
RECURSIVE Stringify(_, _)
Stringify(value, indent) ==
    CASE value.t = "null" -> <<"n", "u", "l", "l">>
      [] value.t = "number" -> NumberToString(value.n)
      [] value.t = "string" -> JsonQuote(value.s)
      [] value.t = "array" ->
            IF value.items = <<>> THEN <<"[", "]">>
            ELSE <<"[", "\n">>
                 \o Join([k \in 1..Len(value.items) |->
                            Spaces(indent + 2) \o Stringify(value.items[k], indent + 2)],
                         <<",", "\n">>)
                 \o <<"\n">> \o Spaces(indent) \o <<"]">>
      [] value.t = "object" ->
            LET kept == SelectSeq(value.entries, LAMBDA e : e.value.t # "undefined")
            IN  IF kept = <<>> THEN <<"{", "}">>
                ELSE <<"{", "\n">>
                     \o Join([k \in 1..Len(kept) |->
                                Spaces(indent + 2) \o JsonQuote(kept[k].key)
                                    \o <<":", " ">>
                                    \o Stringify(kept[k].value, indent + 2)],
                             <<",", "\n">>)
                     \o <<"\n">> \o Spaces(indent) \o <<"}">>

\* res.data || [] as a JSON array of objects
RowsOrEmpty(res) ==
    LET data == IF res.error THEN <<>> ELSE res.data
    IN  Arr([k \in 1..Len(data) |-> Obj(data[k])])

\* allData, lines 76-82
allData(goalsRes, transactionsRes, billsRes, investmentsRes, t) ==
    Obj(<<Entry(KeyGoals, RowsOrEmpty(goalsRes)),
          Entry(KeyTransactions, RowsOrEmpty(transactionsRes)),
          Entry(KeyBills, RowsOrEmpty(billsRes)),
          Entry(KeyInvestments, RowsOrEmpty(investmentsRes)),
          Entry(KeyExportedAt, Str(toISOString(t)))>>)

\* exportAllData, the store having answered
exportAllData ==
    /\ expLoading' = FALSE
    /\ download' =
            [type |-> "application/json", name |-> "all_data",
             content |-> Stringify(allData(fetched["goals"], fetched["transactions"],
                                           fetched["bills"], fetched["investments"], now),
                                   0)]
    /\ exportSuccess' = TRUE
    /\ UNCHANGED <<fetched, csvFields>>
    /\ UNCHANGED notExport

\* a transactions row, for the second list of an export
TransactionRecord ==
    <<Entry(KeyId, Num(3)), Entry(KeyNote, JsonNull), Entry(KeyName, Str(<<"\\", "\"">>))>>

\* the Export page opened, the store answering the select of goals with any
\* list, that of transactions with one row, the others with none
InitExport ==
    /\ \E L \in ExportLists :
            fetched = [t \in Tables |->
                        [error |-> FALSE,
                         data |-> CASE t = "goals" -> L
                                    [] t = "transactions" -> <<TransactionRecord>>
                                    [] OTHER -> <<>>]]
    /\ expLoading = FALSE
    /\ exportSuccess = FALSE
    /\ download = NoRow
    /\ csvFields = <<>>
    /\ goalsTable = [i \in GoalIds |-> NoRow]
    /\ transactionsTable = [i \in TransactionIds |-> NoRow]
    /\ billsTable = [i \in BillIds |-> NoRow]
    /\ investmentsTable = [i \in InvestmentIds |-> NoRow]
    /\ returned = {}
    /\ cleared = {}
    /\ IdleBillsPage
    /\ IdleDashboard
    /\ IdleTxPage
    /\ IdleAnalysis
    /\ rateShown = NoRow
    /\ IdleGoalsPage
    /\ IdleAsync

NextExport ==
    \/ ExportToCSV
    \/ exportAllData
    \/ ExportSuccessTimeout

\* the exports of the Export page, for any answers of the store
SpecExport == InitExport /\ [][NextExport]_vars

----------------------------------------------------------------------------
(* Claims about the Export page *)

\* a CSV file has been downloaded
CsvDownloaded == download # NoRow /\ download.type = "text/csv"

\* the list the downloaded CSV file was made from
CsvData == fetched[download.name].data

\* has a text one of the characters that make exportToCSV quote a field
IsSpecial(text) == Includes(text, ",") \/ Includes(text, "\"") \/ Includes(text, "\n")

\* the text between the quotes of a quoted field, each doubled quote read as
\* one; a quote that is not doubled makes the result <<"malformed">>
RECURSIVE Undoubled(_)
Undoubled(text) ==
    IF text = <<>> THEN <<>>
    ELSE IF Head(text) # "\"" THEN
        LET rest == Undoubled(Tail(text))
        IN  IF rest = <<"malformed">> THEN rest ELSE <<Head(text)>> \o rest
    ELSE IF Len(text) >= 2 /\ text[2] = "\"" THEN
        LET rest == Undoubled(Tail(Tail(text)))
        IN  IF rest = <<"malformed">> THEN rest ELSE <<"\"">> \o rest
    ELSE <<"malformed">>

\* C18: in exportToCSV a data field whose string form has a comma, a double
\* quote or a newline is emitted between double quotes with every inner double
\* quote doubled, any other non-null field is emitted verbatim, and a null or
\* undefined value is emitted as the empty string
C18_CsvFieldQuoting ==
    CsvDownloaded =>
        LET headers == ObjectKeys(CsvData[1])
        IN  \A r \in 1..Len(CsvData) : \A j \in 1..Len(headers) :
                LET value == Field(CsvData[r], headers[j])
                    emitted == csvFields[r][j]
                IN  IF value.t \in {"null", "undefined"} THEN emitted = <<>>
                    ELSE IF IsSpecial(StringOf(value))
                    THEN /\ Len(emitted) >= 2
                         /\ emitted[1] = "\"" /\ emitted[Len(emitted)] = "\""
                         /\ Undoubled(SubSeq(emitted, 2, Len(emitted) - 1))
                                = StringOf(value)
                    ELSE emitted = StringOf(value)

\* C18 witness: a field holding a double quote was emitted quoted, next to a
\* null field and a plain field
C18_Witness ==
    /\ CsvDownloaded
    /\ \E r \in 1..Len(csvFields) : \E j \in 1..Len(csvFields[r]) :
            /\ Len(csvFields[r][j]) >= 4
            /\ csvFields[r][j][1] = "\""
            /\ Includes(StringOf(Field(CsvData[r], ObjectKeys(CsvData[1])[j])), "\"")
    /\ \E r \in 1..Len(CsvData) : Field(CsvData[r], KeyName).t = "null"

\* a reader of CSV text: the rows of the text, each the sequence of its fields
\* with the quoting removed
RECURSIVE CsvRead(_, _, _, _, _, _)
CsvRead(text, pos, field, row, rows, inQuotes) ==
    IF pos > Len(text) THEN Append(rows, Append(row, field))
    ELSE LET c == text[pos]
         IN  IF inQuotes
             THEN IF c # "\"" THEN CsvRead(text, pos + 1, Append(field, c), row, rows, TRUE)
                  ELSE IF pos < Len(text) /\ text[pos + 1] = "\""
                  THEN CsvRead(text, pos + 2, Append(field, c), row, rows, TRUE)
                  ELSE CsvRead(text, pos + 1, field, row, rows, FALSE)
             ELSE CASE c = "\"" -> CsvRead(text, pos + 1, field, row, rows, TRUE)
                    [] c = "," -> CsvRead(text, pos + 1, <<>>, Append(row, field), rows, FALSE)
                    [] c = "\n" ->
                        CsvRead(text, pos + 1, <<>>, <<>>, Append(rows, Append(row, field)), FALSE)
                    [] OTHER -> CsvRead(text, pos + 1, Append(field, c), row, rows, FALSE)

\* C19: for a non-empty list the CSV text reads back as one header row with the
\* keys of the first record in its field order, then one row per record in list
\* order, each with as many fields as the header, field j being the value the
\* record has under header j (empty when it has none)
C19_CsvRows ==
    CsvDownloaded =>
        LET headers == ObjectKeys(CsvData[1])
            rows == CsvRead(download.content, 1, <<>>, <<>>, <<>>, FALSE)
        IN  /\ Len(CsvData) > 0
            /\ Len(rows) = Len(CsvData) + 1
            /\ rows[1] = headers
            /\ \A r \in 1..Len(CsvData) :
                    /\ Len(rows[r + 1]) = Len(headers)
                    /\ \A j \in 1..Len(headers) :
                            LET value == Field(CsvData[r], headers[j])
                            IN  rows[r + 1][j] =
                                    IF value.t \in {"null", "undefined"} THEN <<>>
                                    ELSE StringOf(value)

\* C19 witness: a list was exported in which one record lacks a key of the
\* header and another has a key more
C19_Witness ==
    /\ CsvDownloaded
    /\ \E r \in 1..Len(CsvData) : Len(CsvData[r]) < Len(CsvData[1])
    /\ \E r \in 1..Len(CsvData) : Len(CsvData[r]) > Len(CsvData[1])

\* a reader of JSON text.  Each operator answers [ok, value, pos]: whether a
\* value was read, the value, and the position after it
At(text, pos) == IF pos \in 1..Len(text) THEN text[pos] ELSE "EOF"
JsonFail(pos) == [ok |-> FALSE, value |-> JsonNull, pos |-> pos]
JsonOk(value, pos) == [ok |-> TRUE, value |-> value, pos |-> pos]

RECURSIVE SkipWs(_, _)
SkipWs(text, pos) ==
    IF At(text, pos) \in {" ", "\n"} THEN SkipWs(text, pos + 1) ELSE pos

\* the characters of a string up to its closing quote, from pos
RECURSIVE JsonStringChars(_, _, _)
JsonStringChars(text, pos, acc) ==
    LET c == At(text, pos)
        e == At(text, pos + 1)
    IN  CASE c = "EOF" -> JsonFail(pos)
          [] c = "\"" -> JsonOk(acc, pos + 1)
          [] c = "\\" ->
                IF e = "n" THEN JsonStringChars(text, pos + 2, Append(acc, "\n"))
                ELSE IF e \in {"\"", "\\"} THEN JsonStringChars(text, pos + 2, Append(acc, e))
                ELSE JsonFail(pos)
          [] OTHER -> JsonStringChars(text, pos + 1, Append(acc, c))

IsDigit(c) == \E d \in 1..10 : DigitChars[d] = c
DigitOf(c) == (CHOOSE d \in 1..10 : DigitChars[d] = c) - 1

\* the digits from pos on, continuing the number acc
RECURSIVE JsonDigits(_, _, _)
JsonDigits(text, pos, acc) ==
    IF IsDigit(At(text, pos))
    THEN JsonDigits(text, pos + 1, acc * 10 + DigitOf(At(text, pos)))
    ELSE JsonOk(acc, pos)

RECURSIVE JsonParse(_, _)
RECURSIVE JsonItems(_, _, _)
RECURSIVE JsonMembers(_, _, _)

\* the value that starts at pos
JsonParse(text, pos) ==
    LET c == At(text, pos)
    IN  CASE c = "{" -> JsonMembers(text, pos + 1, <<>>)
          [] c = "[" -> JsonItems(text, pos + 1, <<>>)
          [] c = "\"" ->
                LET r == JsonStringChars(text, pos + 1, <<>>)
                IN  IF r.ok THEN JsonOk(Str(r.value), r.pos) ELSE r
          [] c = "n" ->
                IF SubSeq(text, pos, pos + 3) = <<"n", "u", "l", "l">>
                THEN JsonOk(JsonNull, pos + 4) ELSE JsonFail(pos)
          [] c = "-" ->
                IF IsDigit(At(text, pos + 1))
                THEN LET r == JsonDigits(text, pos + 1, 0)
                     IN  JsonOk(Num(0 - r.value), r.pos)
                ELSE JsonFail(pos)
          [] IsDigit(c) ->
                LET r == JsonDigits(text, pos, 0) IN JsonOk(Num(r.value), r.pos)
          [] OTHER -> JsonFail(pos)

\* the items of an array from pos on, after the items acc
JsonItems(text, pos, acc) ==
    LET p == SkipWs(text, pos)
    IN  IF acc = <<>> /\ At(text, p) = "]" THEN JsonOk(Arr(acc), p + 1)
        ELSE LET v == JsonParse(text, p)
                 q == SkipWs(text, v.pos)
             IN  IF ~v.ok THEN v
                 ELSE IF At(text, q) = "," THEN JsonItems(text, q + 1, Append(acc, v.value))
                 ELSE IF At(text, q) = "]" THEN JsonOk(Arr(Append(acc, v.value)), q + 1)
                 ELSE JsonFail(q)

\* the members of an object from pos on, after the members acc
JsonMembers(text, pos, acc) ==
    LET p == SkipWs(text, pos)
    IN  IF acc = <<>> /\ At(text, p) = "}" THEN JsonOk(Obj(acc), p + 1)
        ELSE IF At(text, p) # "\"" THEN JsonFail(p)
        ELSE LET k == JsonStringChars(text, p + 1, <<>>)
                 colon == SkipWs(text, k.pos)
                 v == JsonParse(text, SkipWs(text, colon + 1))
                 q == SkipWs(text, v.pos)
             IN  IF ~k.ok \/ At(text, colon) # ":" THEN JsonFail(p)
                 ELSE IF ~v.ok THEN v
                 ELSE IF At(text, q) = ","
                 THEN JsonMembers(text, q + 1, Append(acc, Entry(k.value, v.value)))
                 ELSE IF At(text, q) = "}"
                 THEN JsonOk(Obj(Append(acc, Entry(k.value, v.value))), q + 1)
                 ELSE JsonFail(q)

\* the JSON file has been downloaded
JsonDownloaded == download # NoRow /\ download.type = "application/json"

\* the list fetched from table t, as the array of its records
FetchedArray(t) ==
    Arr([k \in 1..Len(fetched[t].data) |-> Obj(fetched[t].data[k])])

----------------------------------------------------------------------------
(* The record pages with their store calls in flight: Bills, Transactions   *)
(* and InvestmentGoals.  A handler runs up to its await and sends a call;   *)
(* the store serves the calls in flight in any order, each with success or  *)
(* with an error; the handler's continuation runs when the response is      *)
(* received.  The three pages share this shape and differ in their form.    *)

MaxInFlight == 2    \* store calls of the page in flight at one time

\* the pages with a record list and a form; their tables bear the same names
RecordPages == {"bills", "transactions", "goals"}

\* the state of the mounted page
PageList ==
    CASE currentPage = "bills" -> bills
      [] currentPage = "transactions" -> transactions
      [] currentPage = "goals" -> goals

PageLoading ==
    CASE currentPage = "bills" -> loading
      [] currentPage = "transactions" -> txLoading
      [] currentPage = "goals" -> goalsLoading

PageShowModal ==
    CASE currentPage = "bills" -> billsShowModal
      [] currentPage = "transactions" -> showModal
      [] currentPage = "goals" -> goalsShowModal

PageEditing ==
    CASE currentPage = "bills" -> editingBill
      [] currentPage = "transactions" -> editingTransaction
      [] currentPage = "goals" -> editingGoal

PageFormData ==
    CASE currentPage = "bills" -> billsFormData
      [] currentPage = "transactions" -> formData
      [] currentPage = "goals" -> goalsFormData

\* the lists and loading flags, and the forms, of the three pages
pageLists == <<bills, loading, loadedToday, transactions, txLoading, goals, goalsLoading>>
pageForms == <<showModal, editingTransaction, formData, varsForms>>

\* what the record pages leave alone
notRecordPages == <<now, tz, txPage, varsDashboard, varsAnalysis, rateShown, varsExport,
                    currentPage, varsFlight>>

\* setShowModal(show); setEditing...(editing); setFormData(fd) of the mounted page
SetPageForm(show, editing, fd) ==
    /\ billsShowModal' = IF currentPage = "bills" THEN show ELSE billsShowModal
    /\ editingBill' = IF currentPage = "bills" THEN editing ELSE editingBill
    /\ billsFormData' = IF currentPage = "bills" THEN fd ELSE billsFormData
    /\ showModal' = IF currentPage = "transactions" THEN show ELSE showModal
    /\ editingTransaction' =
            IF currentPage = "transactions" THEN editing ELSE editingTransaction
    /\ formData' = IF currentPage = "transactions" THEN fd ELSE formData
    /\ goalsShowModal' = IF currentPage = "goals" THEN show ELSE goalsShowModal
    /\ editingGoal' = IF currentPage = "goals" THEN editing ELSE editingGoal
    /\ goalsFormData' = IF currentPage = "goals" THEN fd ELSE goalsFormData

\* the end of the mounted page's load: setBills / setTransactions / setGoals
\* of the list unless the fetch failed, and setLoading(false) in finally
SetPageList(failed, list) ==
    /\ bills' = IF currentPage = "bills" /\ ~failed
                THEN [k \in 1..Len(list) |-> billsWithStatus(list[k], now, tz)]
                ELSE bills
    /\ loadedToday' = IF currentPage = "bills" /\ ~failed THEN TRUE ELSE loadedToday
    /\ loading' = IF currentPage = "bills" THEN FALSE ELSE loading
    /\ transactions' = IF currentPage = "transactions" /\ ~failed THEN list
                       ELSE transactions
    /\ txLoading' = IF currentPage = "transactions" THEN FALSE ELSE txLoading
    /\ goals' = IF currentPage = "goals" /\ ~failed THEN list ELSE goals
    /\ goalsLoading' = IF currentPage = "goals" THEN FALSE ELSE goalsLoading

MaxParts == 4   \* the texts of the date field have up to MaxParts parts between dashes

\* the parts the date texts are made of
DateParts ==
    {<<>>, <<"7">>, <<"1", "2">>, <<"3", "1">>, <<"2", "0", "2", "4">>, <<"a", "b">>}

\* what the user types into the date field of part_000, a text input: the parts
\* joined by dashes; the field is required
DateInputs ==
    {Join(parts, <<"-">>) : parts \in UNION {[1..n -> DateParts] : n \in 1..MaxParts}}
        \ {<<>>}

\* new Date().toISOString().split("T")[0]
IsoToday == <<"2", "0", "2", "4", "-", "1", "2", "-", "3", "1">>

\* input.split("-"), from position k on, cur being the part read so far
RECURSIVE Split(_, _, _, _)
Split(input, k, cur, parts) ==
    IF k > Len(input) THEN Append(parts, cur)
    ELSE IF input[k] = "-" THEN Split(input, k + 1, <<>>, Append(parts, cur))
    ELSE Split(input, k + 1, Append(cur, input[k]), parts)

\* an element of a destructured array inside a template literal
TemplatePart(parts, k) ==
    IF k <= Len(parts) THEN parts[k]
    ELSE <<"u", "n", "d", "e", "f", "i", "n", "e", "d">>

\* formatDate(input) of part_000
formatDate(input) ==
    LET parts == Split(input, 1, <<>>, <<>>)
    IN  IF Includes(input, "-") /\ Len(parts[1]) = 2
        THEN Join(<<TemplatePart(parts, 3), TemplatePart(parts, 2), TemplatePart(parts, 1)>>,
                  <<"-">>)
        ELSE input

\* resetForm of page
ResetForm(page) ==
    CASE page = "bills" -> ResetBillsForm
      [] page = "transactions" ->
            IF txPage = "part_000" THEN [date |-> IsoToday] @@ ResetTxForm
            ELSE ResetTxForm
      [] page = "goals" -> ResetGoalsForm

\* the formData openEditModal(row) sets
EditForm(page, row) ==
    CASE page = "bills" -> [due_date |-> row.due_date, status |-> row.status]
      [] page = "transactions" ->
            IF txPage = "part_000"
            THEN [type |-> row.type, amount |-> TextOf(row.amount), date |-> row.date]
            ELSE [type |-> row.type, amount |-> TextOf(row.amount)]
      [] page = "goals" -> [target_amount |-> TextOf(row.target_amount),
                            current_amount |-> TextOf(row.current_amount)]

\* the values the form's inputs are given: a date or none and any status; an
\* expense with an amount or none; a target or none
FormInputs(page) ==
    CASE page = "bills" -> [due_date : {EmptyDate, 1}, status : Statuses]
      [] page = "transactions" ->
            IF txPage = "part_000"
            THEN [type : {"expense"}, amount : {EmptyText, TextOf(1)}, date : DateInputs]
            ELSE [type : {"expense"}, amount : {EmptyText, TextOf(1)}]
      [] page = "goals" ->
            [target_amount : {EmptyText, TextOf(1)}, current_amount : {TextOf(0)}]

\* the browser's validation of the form before onSubmit fires
FormValid(page, fd) ==
    CASE page = "bills" -> fd.due_date # EmptyDate
      [] page = "transactions" ->
            /\ AmountInputValid(txPage, fd.amount)
            /\ txPage = "part_000" => fd.date # <<>>
      [] page = "goals" -> fd.target_amount # EmptyText /\ fd.current_amount # EmptyText

\* the object handleSubmit passes to update(...)
UpdatePayload(page, fd) ==
    CASE page = "bills" -> [due_date |-> fd.due_date, status |-> fd.status]
      [] page = "transactions" ->
            IF txPage = "part_000"
            THEN [type |-> fd.type, amount |-> parseFloat(fd.amount),
                  date |-> formatDate(fd.date)]
            ELSE [type |-> fd.type, amount |-> parseFloat(fd.amount)]
      [] page = "goals" -> [target_amount |-> parseFloat(fd.target_amount),
                            current_amount |-> parseFloat(fd.current_amount)]

\* the object handleSubmit passes to insert(...)
InsertPayload(page, fd) == [user_id |-> Me] @@ UpdatePayload(page, fd)

\* a stored row with the columns of an update's payload replaced
ApplyPatch(row, patch) ==
    IF row = NoRow THEN NoRow
    ELSE [f \in DOMAIN row |-> IF f \in DOMAIN patch THEN patch[f] ELSE row[f]]

\* a call as sent
Call(handler, op, id, payload) ==
    [handler |-> handler, op |-> op, id |-> id, payload |-> payload,
     stage |-> "sent", error |-> FALSE, data |-> <<>>]

\* loadBills / loadTransactions / loadGoals up to its await
LoadCall == Call("load", "select", 0, NoRow)

\* the calls without the k-th
Remove(seq, k) == [j \in 1..(Len(seq) - 1) |-> IF j < k THEN seq[j] ELSE seq[j + 1]]

\* the arrays the page's select can return for table tbl
SelectResults(page, tbl) ==
    CASE page = "bills" ->
            {[k \in 1..Len(order) |-> Fetched(tbl, order[k])] :
                order \in OrderedByDueDate(tbl, BillsQuery(tbl, Me))}
      [] page = "transactions" -> {FetchUpTo("transactions", tbl, Me, Len(tbl))}
      [] page = "goals" ->
            LET data == FetchUpTo("goals", tbl, Me, Len(tbl))
            IN  {[k \in 1..Len(data) |-> data[p[k]]] : p \in IndexPermutations(Len(data))}

\* variant for the sensitivity of C21: the error of the response is not looked at
SucceededUnchecked(call) == TRUE

\* if (error) throw error: the continuation after the await runs on success only
Succeeded(call) == ~call.error

\* the Add button: setEditing...(null); resetForm(); setShowModal(true)
PageOpenAddModal ==
    /\ ~PageLoading /\ ~PageShowModal
    /\ SetPageForm(TRUE, NoRow, ResetForm(currentPage))
    /\ UNCHANGED <<varsStore, calls, received, pageLists, notRecordPages>>

\* openEditModal(row) from a row of the list
PageOpenEditModal ==
    \E k \in 1..Len(PageList) :
        /\ ~PageLoading /\ ~PageShowModal
        /\ SetPageForm(TRUE, PageList[k], EditForm(currentPage, PageList[k]))
        /\ UNCHANGED <<varsStore, calls, received, pageLists, notRecordPages>>

\* the onChange handlers of the form's inputs
PageSetFormData ==
    \E fd \in FormInputs(currentPage) :
        /\ PageShowModal
        /\ fd # PageFormData
        /\ SetPageForm(TRUE, PageEditing, fd)
        /\ UNCHANGED <<varsStore, calls, received, pageLists, notRecordPages>>

\* the X and Cancel buttons
PageCloseModal ==
    /\ PageShowModal
    /\ SetPageForm(FALSE, NoRow, ResetForm(currentPage))
    /\ UNCHANGED <<varsStore, calls, received, pageLists, notRecordPages>>

\* handleSubmit up to its await: the update by id when editing, else the insert
PageHandleSubmit ==
    /\ PageShowModal
    /\ FormValid(currentPage, PageFormData)
    /\ Len(calls) < MaxInFlight
    /\ calls' = Append(calls,
            IF PageEditing # NoRow
            THEN Call("handleSubmit", "update", PageEditing.id,
                      UpdatePayload(currentPage, PageFormData))
            ELSE Call("handleSubmit", "insert", 0,
                      InsertPayload(currentPage, PageFormData)))
    /\ UNCHANGED <<varsStore, received, pageLists, pageForms, notRecordPages>>

\* deleteBill / deleteTransaction / deleteGoal up to its await, confirmed
PageDelete ==
    \E k \in 1..Len(PageList) :
        /\ ~PageLoading /\ ~PageShowModal
        /\ Len(calls) < MaxInFlight
        /\ calls' = Append(calls, Call("delete", "delete", PageList[k].id, NoRow))
        /\ UNCHANGED <<varsStore, received, pageLists, pageForms, notRecordPages>>

\* markAsPaid(bill) up to its await; the button is rendered for bill.status !== 'paid'
PageMarkAsPaid ==
    \E k \in 1..Len(bills) :
        /\ currentPage = "bills"
        /\ ~loading /\ ~billsShowModal
        /\ bills[k].status # "paid"
        /\ Len(calls) < MaxInFlight
        /\ calls' = Append(calls, Call("markAsPaid", "update", bills[k].id,
                                       [status |-> "paid"]))
        /\ UNCHANGED <<varsStore, received, pageLists, pageForms, notRecordPages>>

\* the call as answered
Served(call, failed, data) ==
    [call EXCEPT !.stage = "served", !.error = failed, !.data = data]

\* the store answers the k-th call: with an error and no effect, or by
\* carrying the statement out
Serve(k) ==
    LET c == calls[k]
        tbl == Tbl(currentPage)
    IN  /\ c.stage = "sent"
        /\ \/ /\ calls' = [calls EXCEPT ![k] = Served(c, TRUE, <<>>)]
              /\ UNCHANGED varsStore
           \/ /\ c.op = "select"
              /\ \E data \in SelectResults(currentPage, tbl) :
                    calls' = [calls EXCEPT ![k] = Served(c, FALSE, data)]
              /\ UNCHANGED varsStore
           \/ /\ c.op = "insert"
              /\ \E i \in DOMAIN tbl :
                    /\ tbl[i] = NoRow                  \* gen_random_uuid(): a fresh
                    /\ \A j \in 1..(i - 1) : tbl[j] # NoRow        \* id, the first free
                    /\ RowPolicy(currentPage, Me, c.payload)
                    /\ WriteTbl(currentPage, [tbl EXCEPT ![i] = c.payload])
              /\ calls' = [calls EXCEPT ![k] = Served(c, FALSE, <<>>)]
              /\ UNCHANGED <<investmentsTable, returned, cleared>>
           \/ /\ c.op = "update"
              /\ WriteTbl(currentPage, StoreUpdate(currentPage, tbl, Me, c.id,
                                                   ApplyPatch(tbl[c.id], c.payload)))
              /\ calls' = [calls EXCEPT ![k] = Served(c, FALSE, <<>>)]
              /\ UNCHANGED <<investmentsTable, returned, cleared>>
           \/ /\ c.op = "delete"
              /\ ReqDeleteStore(Me, currentPage, c.id)
              /\ calls' = [calls EXCEPT ![k] = Served(c, FALSE, <<>>)]
        /\ UNCHANGED <<received, pageLists, pageForms, notRecordPages>>

\* the response of the k-th call arrives and the handler runs on from its await
Receive(k) ==
    LET c == calls[k]
        rest == Remove(calls, k)
    IN  /\ c.stage = "served"
        /\ received' = [handler |-> c.handler, op |-> c.op, error |-> c.error]
        /\ CASE c.handler = "load" ->
                    /\ SetPageList(~Succeeded(c), c.data)
                    /\ calls' = rest
                    /\ UNCHANGED pageForms
             [] c.handler = "handleSubmit" /\ Succeeded(c) ->
                    /\ SetPageForm(FALSE, NoRow, ResetForm(currentPage))
                    /\ calls' = Append(rest, LoadCall)
                    /\ UNCHANGED pageLists
             [] c.handler \in {"delete", "markAsPaid"} /\ Succeeded(c) ->
                    /\ calls' = Append(rest, LoadCall)
                    /\ UNCHANGED <<pageLists, pageForms>>
             [] OTHER ->
                    /\ calls' = rest
                    /\ UNCHANGED <<pageLists, pageForms>>
        /\ UNCHANGED <<varsStore, notRecordPages>>

ServeCall == \E k \in 1..Len(calls) : Serve(k)
ReceiveResponse == \E k \in 1..Len(calls) : Receive(k)

\* one of the record pages mounted, its load sent by useEffect, the tables empty
InitPages ==
    /\ currentPage \in RecordPages
    /\ goalsTable = [i \in GoalIds |-> NoRow]
    /\ transactionsTable = [i \in TransactionIds |-> NoRow]
    /\ billsTable = [i \in BillIds |-> NoRow]
    /\ investmentsTable = [i \in InvestmentIds |-> NoRow]
    /\ returned = {}
    /\ cleared = {}
    /\ bills = <<>>
    /\ loading = TRUE
    /\ now = 24 * MaxDay
    /\ tz = 0
    /\ loadedToday = FALSE
    /\ IdleDashboard
    /\ transactions = <<>>
    /\ txLoading = TRUE
    /\ showModal = FALSE
    /\ editingTransaction = NoRow
    /\ formData = ResetTxForm
    /\ txPage = "Transactions.tsx"
    /\ IdleAnalysis
    /\ rateShown = NoRow
    /\ IdleGoalsPage
    /\ IdleExport
    /\ calls = <<LoadCall>>
    /\ received = NoRow
    /\ IdleForms
    /\ IdleFlight

\* handleSubmit by a user who has waited for the answers to the calls before
PageHandleSubmitAlone == calls = <<>> /\ PageHandleSubmit

\* filling in and submitting the forms
NextSubmit ==
    \/ PageOpenAddModal
    \/ PageOpenEditModal
    \/ PageSetFormData
    \/ PageCloseModal
    \/ PageHandleSubmitAlone
    \/ ServeCall
    \/ ReceiveResponse

\* a session of one of the record pages in which records are created and
\* edited, one submission at a time
SpecSubmit == InitPages /\ [][NextSubmit]_vars

\* C21: when the response of handleSubmit's insert or update carries an error,
\* the handler ends there: the modal, formData, the editing target and the
\* displayed list stay as they are, and no load is sent
C21_FailedSubmitAborts ==
    [][\A k \in 1..Len(calls) :
          (Receive(k) /\ calls[k].handler = "handleSubmit" /\ calls[k].error)
              => /\ UNCHANGED <<pageForms, pageLists>>
                 /\ calls' = Remove(calls, k)]_vars

\* C21 witness: the update of an edited record has failed; the modal is still
\* open on that record and nothing is in flight
C21_Witness ==
    /\ received # NoRow
    /\ received.handler = "handleSubmit"
    /\ received.op = "update"
    /\ received.error
    /\ calls = <<>>
    /\ PageShowModal
    /\ PageEditing # NoRow
    /\ PageFormData # EditForm(currentPage, PageEditing)

\* every handler of the record pages, each started whatever is in flight
NextPages ==
    \/ PageOpenAddModal
    \/ PageOpenEditModal
    \/ PageSetFormData
    \/ PageCloseModal
    \/ PageHandleSubmit
    \/ PageDelete
    \/ PageMarkAsPaid
    \/ ServeCall
    \/ ReceiveResponse

\* the record pages with up to MaxInFlight calls in flight
SpecPages == InitPages /\ [][NextPages]_vars

\* the lists the page shows when it holds the records of the user as stored
ListsOfRecords ==
    LET results == SelectResults(currentPage, Tbl(currentPage))
    IN  IF currentPage = "bills"
        THEN {[k \in 1..Len(data) |-> billsWithStatus(data[k], now, tz)] : data \in results}
        ELSE results

\* C24 (as claimed, where the last answer was a list): once nothing is in
\* flight the list displayed is the list of the user's records as stored, the
\* bills with their derived status
C24_ListMatchesRecords ==
    (calls = <<>> /\ received # NoRow /\ received.handler = "load" /\ ~received.error)
        => PageList \in ListsOfRecords

\* the part of C24 that holds: the answer to a successful create, update,
\* delete or mark-as-paid puts a re-fetch of the list in flight
C24_RefetchIssued ==
    [][\A k \in 1..Len(calls) :
          (Receive(k) /\ calls[k].handler # "load" /\ ~calls[k].error)
              => calls' = Append(Remove(calls, k), LoadCall)]_vars

\* C27 (as claimed): the update sent for a bill whose status selector holds
\* what openEditModal put there carries the status the bill has in the store
C27_EditKeepsStoredStatus ==
    [][(PageHandleSubmit /\ currentPage = "bills" /\ editingBill # NoRow
            /\ billsTable[editingBill.id] # NoRow
            /\ billsFormData.status = EditForm("bills", editingBill).status)
          => calls'[Len(calls')].payload.status = billsTable[editingBill.id].status]_vars

\* the valid ways to fill in the form of page
FilledForms(page) == {fd \in FormInputs(page) : FormValid(page, fd)}

\* a record page with its empty list loaded and its Add form open and filled in
InitCreate ==
    /\ currentPage \in RecordPages
    /\ goalsTable = [i \in GoalIds |-> NoRow]
    /\ transactionsTable = [i \in TransactionIds |-> NoRow]
    /\ billsTable = [i \in BillIds |-> NoRow]
    /\ investmentsTable = [i \in InvestmentIds |-> NoRow]
    /\ returned = {}
    /\ cleared = {}
    /\ bills = <<>>
    /\ loading = FALSE
    /\ now = 24 * MaxDay
    /\ tz = 0
    /\ loadedToday = TRUE
    /\ IdleDashboard
    /\ transactions = <<>>
    /\ txLoading = FALSE
    /\ txPage \in TxPages
    /\ showModal = (currentPage = "transactions")
    /\ editingTransaction = NoRow
    /\ formData \in IF currentPage = "transactions" THEN FilledForms("transactions")
                    ELSE {ResetForm("transactions")}
    /\ IdleAnalysis
    /\ rateShown = NoRow
    /\ goals = <<>>
    /\ goalsLoading = FALSE
    /\ IdleExport
    /\ calls = <<>>
    /\ received = NoRow
    /\ billsShowModal = (currentPage = "bills")
    /\ editingBill = NoRow
    /\ billsFormData \in IF currentPage = "bills" THEN FilledForms("bills")
                         ELSE {ResetBillsForm}
    /\ goalsShowModal = (currentPage = "goals")
    /\ editingGoal = NoRow
    /\ goalsFormData \in IF currentPage = "goals" THEN FilledForms("goals")
                         ELSE {ResetGoalsForm}
    /\ IdleFlight

\* the submit button clicked any number of times, the store answering
NextCreate ==
    \/ PageHandleSubmit
    \/ ServeCall
    \/ ReceiveResponse

\* one Add form, filled in once, until it closes
SpecCreate == InitCreate /\ [][NextCreate]_vars

\* C28 (as claimed): the one filled-in create form leaves at most one record
\* in the table
C28_OneFormOneRecord ==
    Cardinality(Rows(Tbl(currentPage))) <= 1

----------------------------------------------------------------------------
(* The date field of the Transactions page of src/unnamed/part_000 *)

\* a stored transaction of the user, as the page has loaded it
DatedRow == [user_id |-> Me, type |-> "expense", amount |-> 1, date |-> IsoToday]

\* the form of part_000 open, on a new transaction or on the stored one, with
\* an amount and any text in the date field
InitDate ==
    /\ currentPage = "transactions"
    /\ txPage = "part_000"
    /\ transactionsTable = [i \in TransactionIds |-> IF i = 1 THEN DatedRow ELSE NoRow]
    /\ goalsTable = [i \in GoalIds |-> NoRow]
    /\ billsTable = [i \in BillIds |-> NoRow]
    /\ investmentsTable = [i \in InvestmentIds |-> NoRow]
    /\ returned = {}
    /\ cleared = {}
    /\ IdleBillsPage
    /\ IdleDashboard
    /\ transactions = <<WithId(1, DatedRow)>>
    /\ txLoading = FALSE
    /\ showModal = TRUE
    /\ editingTransaction \in {NoRow, WithId(1, DatedRow)}
    /\ \E d \in DateInputs :
            formData = [type |-> "expense", amount |-> TextOf(1), date |-> d]
    /\ IdleAnalysis
    /\ rateShown = NoRow
    /\ IdleGoalsPage
    /\ IdleExport
    /\ calls = <<>>
    /\ received = NoRow
    /\ IdleForms
    /\ IdleFlight

NextDate ==
    \/ PageHandleSubmitAlone
    \/ ServeCall
    \/ ReceiveResponse

\* the form of part_000 submitted with any text in the date field
SpecDate == InitDate /\ [][NextDate]_vars

\* the shape of a date text: four digits, month and day of two digits
IsYearText(t) == Len(t) = 4 /\ \A k \in 1..4 : IsDigit(t[k])
IsMonthText(t) ==
    /\ Len(t) = 2 /\ IsDigit(t[1]) /\ IsDigit(t[2])
    /\ DigitOf(t[1]) * 10 + DigitOf(t[2]) \in 1..12
IsDayText(t) ==
    /\ Len(t) = 2 /\ IsDigit(t[1]) /\ IsDigit(t[2])
    /\ DigitOf(t[1]) * 10 + DigitOf(t[2]) \in 1..31

\* a well-formed YYYY-MM-DD text
WellFormedYMD(t) ==
    /\ Len(t) = 10 /\ t[5] = "-" /\ t[8] = "-"
    /\ IsYearText(SubSeq(t, 1, 4))
    /\ IsMonthText(SubSeq(t, 6, 7))
    /\ IsDayText(SubSeq(t, 9, 10))

\* a well-formed DD-MM-YYYY text
WellFormedDMY(t) ==
    /\ Len(t) = 10 /\ t[3] = "-" /\ t[6] = "-"
    /\ IsDayText(SubSeq(t, 1, 2))
    /\ IsMonthText(SubSeq(t, 4, 5))
    /\ IsYearText(SubSeq(t, 7, 10))

\* C23 (as claimed): an insert or update is sent only for a well-formed date
\* text, carrying a YYYY-MM-DD text as it is and a DD-MM-YYYY text as YYYY-MM-DD
C23_MalformedDateRejected ==
    \A k \in 1..Len(calls) :
        calls[k].handler = "handleSubmit" =>
            LET input == formData.date
                sent == calls[k].payload.date
            IN  \/ WellFormedYMD(input) /\ sent = input
                \/ /\ WellFormedDMY(input)
                   /\ sent = SubSeq(input, 7, 10) \o <<"-">> \o SubSeq(input, 4, 5)
                                \o <<"-">> \o SubSeq(input, 1, 2)

\* the part of C23 that holds: what is sent for a well-formed text
C23_WellFormedConverted ==
    \A k \in 1..Len(calls) :
        (calls[k].handler = "handleSubmit"
            /\ (WellFormedYMD(formData.date) \/ WellFormedDMY(formData.date)))
                => WellFormedYMD(calls[k].payload.date)

----------------------------------------------------------------------------
(* The Export page with its export in flight *)

MaxExports == 2     \* exports started in a session

\* what the store may answer a select of the export with
ExportAnswers ==
    {[error |-> TRUE, data |-> <<>>],
     [error |-> FALSE, data |-> <<>>],
     [error |-> FALSE, data |-> <<TransactionRecord>>]}

\* variant for the sensitivity of C30: buttons that are never disabled
ExportNeverDisabled == FALSE

\* disabled={loading} of the export buttons
ExportDisabled == expLoading

\* what an export in flight leaves alone
notExportFlight == <<varsStore, varsBillsPage, varsDashboard, varsTxPage, varsAnalysis,
                     rateShown, varsGoalsPage, currentPage, calls, received, varsForms,
                     nwCalls, nwStarted>>

\* a click on an export button: the handler up to its await
ExportStart(handler, table) ==
    /\ ~ExportDisabled
    /\ exporting.n < MaxExports
    /\ expLoading' = TRUE
    /\ exportSuccess' = FALSE
    /\ exporting' = [n |-> exporting.n + 1, handler |-> handler, table |-> table,
                     stage |-> "sent"]
    /\ UNCHANGED <<fetched, download, csvFields>>
    /\ UNCHANGED notExportFlight

\* a click on one of the four Export buttons, or on Export Complete Backup
ExportClick ==
    \/ \E table \in Tables : ExportStart("exportToCSV", table)
    \/ ExportStart("exportAllData", "all")

\* the store answers the select of exportToCSV, or the four of exportAllData
ExportAnswered ==
    /\ exporting.stage = "sent"
    /\ IF exporting.handler = "exportToCSV"
       THEN \E res \in ExportAnswers : fetched' = [fetched EXCEPT ![exporting.table] = res]
       ELSE fetched' \in [Tables -> ExportAnswers]
    /\ exporting' = [exporting EXCEPT !.stage = "served"]
    /\ UNCHANGED <<expLoading, exportSuccess, download, csvFields>>
    /\ UNCHANGED notExportFlight

\* the handler runs on from its await to the end of its finally
ExportCompleted ==
    /\ expLoading
    /\ exporting.stage = "served"
    /\ IF exporting.handler = "exportToCSV" THEN exportToCSV(exporting.table)
       ELSE exportAllData

InitExportFlight ==
    /\ IdleExport
    /\ goalsTable = [i \in GoalIds |-> NoRow]
    /\ transactionsTable = [i \in TransactionIds |-> NoRow]
    /\ billsTable = [i \in BillIds |-> NoRow]
    /\ investmentsTable = [i \in InvestmentIds |-> NoRow]
    /\ returned = {}
    /\ cleared = {}
    /\ IdleBillsPage
    /\ IdleDashboard
    /\ IdleTxPage
    /\ IdleAnalysis
    /\ rateShown = NoRow
    /\ IdleGoalsPage
    /\ IdleAsync

NextExportFlight ==
    \/ ExportClick
    \/ ExportAnswered
    \/ ExportCompleted
    \/ ExportSuccessTimeout

\* the Export page, each export answered by the store with rows or errors
SpecExportFlight == InitExportFlight /\ [][NextExportFlight]_vars

\* the step of ExportCompleted as seen on loading and exporting: finally
\* { setLoading(false) }.  ExportCompleted is enabled whenever its first two
\* conjuncts hold, and no other action resets loading
ExportFinally ==
    /\ expLoading
    /\ exporting.stage = "served"
    /\ expLoading' = FALSE
    /\ exporting' = exporting

\* the same with every select answered in the end and the handler running on
\* once it is answered
SpecExportFlightFair ==
    /\ SpecExportFlight
    /\ WF_vars(ExportAnswered)
    /\ WF_<<expLoading, exporting>>(ExportFinally)

\* C25 (as claimed): exportAllData ends with exportSuccess set only when each
\* of its four fetches succeeded
C25_ExportAllNeedsAllFetches ==
    (exporting.handler = "exportAllData" /\ exporting.stage = "served"
        /\ ~expLoading /\ exportSuccess)
            => \A t \in Tables : ~fetched[t].error

\* C30: while loading is set no export is started, and every export that has
\* set loading ends with loading = false
C30_ExportEndsNotLoading ==
    /\ [][expLoading => exporting'.n = exporting.n]_vars
    /\ expLoading ~> ~expLoading

\* C30 witness: an export whose select failed has ended, a second one whose
\* select succeeded has ended as well, loading is false
C30_Witness ==
    /\ exporting.n = MaxExports
    /\ exporting.stage = "served"
    /\ ~expLoading
    /\ \E t \in Tables : fetched[t].error
    /\ exportSuccess

----------------------------------------------------------------------------
(* App: loadNetWorth started by every change of page, its fetches in flight *)

MaxNavigations == 3     \* loadNetWorth calls started in a session

\* the cases of renderPage
AppPages == {"dashboard", "transactions", "goals", "bills", "visual-analysis", "export"}

\* what the sidebar's net worth leaves alone
notNetWorthCalls == <<varsStore, varsBillsPage, stats, dashLoading, varsTxPage,
                      varsAnalysis, rateShown, varsGoalsPage, varsExport, calls,
                      received, varsForms, exporting>>

\* a loadNetWorth call up to its await, the n-th started
NetWorthCall(n) == [n |-> n, stage |-> "sent", value |-> 0]

\* onNavigate(page): setCurrentPage, and the effect on [user, currentPage]
\* starts loadNetWorth
Navigate ==
    \E page \in AppPages \ {currentPage} :
        /\ nwStarted.n < MaxNavigations
        /\ currentPage' = page
        /\ nwCalls' = Append(nwCalls, NetWorthCall(nwStarted.n + 1))
        /\ nwStarted' = [n |-> nwStarted.n + 1, value |-> 0]
        /\ UNCHANGED <<netWorth, nwLoaded>>
        /\ UNCHANGED notNetWorthCalls

\* the store answers the two fetches of the k-th call in flight
NetWorthServed(k) ==
    LET c == nwCalls[k]
        value == loadNetWorthValue(Response("transactions", transactionsTable, Me, TRUE),
                                   Response("investments", investmentsTable, Me, TRUE))
    IN  /\ c.stage = "sent"
        /\ nwCalls' = [nwCalls EXCEPT ![k] = [c EXCEPT !.stage = "served", !.value = value]]
        /\ nwStarted' = IF c.n = nwStarted.n THEN [nwStarted EXCEPT !.value = value]
                        ELSE nwStarted
        /\ UNCHANGED <<currentPage, netWorth, nwLoaded>>
        /\ UNCHANGED notNetWorthCalls

\* the k-th call runs on from its await: setNetWorth
NetWorthReceived(k) ==
    LET c == nwCalls[k]
    IN  /\ c.stage = "served"
        /\ netWorth' = c.value
        /\ nwLoaded' = TRUE
        /\ nwCalls' = Remove(nwCalls, k)
        /\ UNCHANGED <<currentPage, nwStarted>>
        /\ UNCHANGED notNetWorthCalls

NetWorthAnswer == \E k \in 1..Len(nwCalls) : NetWorthServed(k)
NetWorthResponse == \E k \in 1..Len(nwCalls) : NetWorthReceived(k)

\* the user adds or deletes a transaction on the page that is open
UserChangesTransactions ==
    \E i \in TransactionIds :
        \/ \E row \in [user_id : {Me}, type : Types, amount : {MaxAmount}] :
                ReqInsert(Me, "transactions", i, row)
        \/ ReqDelete(Me, "transactions", i)

\* the application mounted for the signed-in user: the first loadNetWorth sent
InitNetWorth ==
    /\ goalsTable = [i \in GoalIds |-> NoRow]
    /\ transactionsTable = [i \in TransactionIds |-> NoRow]
    /\ billsTable = [i \in BillIds |-> NoRow]
    /\ investmentsTable = [i \in InvestmentIds |-> NoRow]
    /\ returned = {}
    /\ cleared = {}
    /\ IdleBillsPage
    /\ IdleDashboard
    /\ IdleTxPage
    /\ IdleAnalysis
    /\ rateShown = NoRow
    /\ IdleGoalsPage
    /\ IdleExport
    /\ currentPage = "dashboard"
    /\ calls = <<>>
    /\ received = NoRow
    /\ IdleForms
    /\ exporting = NoExport
    /\ nwCalls = <<NetWorthCall(1)>>
    /\ nwStarted = [n |-> 1, value |-> 0]

NextNetWorth ==
    \/ Navigate
    \/ NetWorthAnswer
    \/ NetWorthResponse
    \/ UserChangesTransactions

\* the sidebar's net worth while the user changes pages and transactions
SpecNetWorth == InitNetWorth /\ [][NextNetWorth]_vars

\* C26 (as claimed): once every loadNetWorth call has completed, the net worth
\* shown is the value of the call started last
C26_LatestCallWins ==
    nwCalls = <<>> => netWorth = nwStarted.value

\* the part of C26 that holds: every change of page starts a loadNetWorth call
C26_PageChangeStartsCall ==
    [][currentPage' # currentPage
            => /\ nwStarted'.n = nwStarted.n + 1
               /\ nwCalls' = Append(nwCalls, NetWorthCall(nwStarted'.n))]_vars

----------------------------------------------------------------------------
(* The pending bills of the Dashboard and of the Bills page *)

NextPending ==
    \/ LoadBills
    \/ loadDashboardData
    \/ Tick

\* the Bills page and the Dashboard loaded from one store as time passes
SpecPending == InitBills /\ [][NextPending]_vars

\* pendingBills of the Bills page: bills.filter((b) => b.status === 'pending')
pendingBills == SelectSeq(bills, LAMBDA b : b.status = "pending")

\* C29 (as claimed): with both loaded from the same store on the same date,
\* the Dashboard's count of pending bills is the number of bills the Bills
\* page displays as pending
C29_SamePendingCount ==
    (~loading /\ loadedToday /\ ~dashLoading)
        => stats.pendingBills = Len(pendingBills)

----------------------------------------------------------------------------
(* Aggregation when the store answers a fetch with an error.  A select of   *)
(* the store client resolves to {data: null, error}; it does not reject, so *)
(* Promise.all resolves and the code after the await runs.                  *)

\* App: loadNetWorth, each of the two fetches answered with rows or an error
loadNetWorthAnswered(okTransactions, okInvestments) ==
    /\ netWorth' = loadNetWorthValue(
                        Response("transactions", transactionsTable, Me, okTransactions),
                        Response("investments", investmentsTable, Me, okInvestments))
    /\ nwLoaded' = TRUE
    /\ UNCHANGED <<stats, dashLoading>>
    /\ UNCHANGED notDashboard

\* Dashboard: loadDashboardData, each of the four fetches answered with rows
\* or an error
loadDashboardDataAnswered(okTransactions, okGoals, okBills, okInvestments) ==
    /\ stats' = loadDashboardStats(
                    Response("transactions", transactionsTable, Me, okTransactions),
                    Response("goals", goalsTable, Me, okGoals),
                    PendingOnly(Response("bills", billsTable, Me, okBills)),
                    Response("investments", investmentsTable, Me, okInvestments))
    /\ dashLoading' = FALSE
    /\ UNCHANGED <<netWorth, nwLoaded>>
    /\ UNCHANGED notDashboard

LoadNetWorthAnswered ==
    \E okTransactions, okInvestments \in BOOLEAN :
        loadNetWorthAnswered(okTransactions, okInvestments)

LoadDashboardDataAnswered ==
    \E okTransactions, okGoals, okBills, okInvestments \in BOOLEAN :
        loadDashboardDataAnswered(okTransactions, okGoals, okBills, okInvestments)

NextAggAnswered == LoadNetWorthAnswered \/ LoadDashboardDataAnswered

\* one snapshot of the store, aggregated again and again while fetches fail
SpecAggAnswered == InitAgg /\ [][NextAggAnswered]_vars

\* C22 (as claimed): a load of which a fetch returned an error leaves the
\* displayed stats, and the sidebar's net worth, as they were
C22_FailedFetchKeepsStats ==
    [][/\ \A okTransactions, okGoals, okBills, okInvestments \in BOOLEAN :
            (/\ ~(okTransactions /\ okGoals /\ okBills /\ okInvestments)
             /\ loadDashboardDataAnswered(okTransactions, okGoals, okBills,
                                          okInvestments))
                => stats' = stats
       /\ \A okTransactions, okInvestments \in BOOLEAN :
            (/\ ~(okTransactions /\ okInvestments)
             /\ loadNetWorthAnswered(okTransactions, okInvestments))
                => netWorth' = netWorth]_vars

=============================================================================
